---- MODULE Spec2Model ----
(***************************************************************************)
(* OpenMenuOS: a menu library for small TFT displays.                      *)
(*                                                                         *)
(* The module models these parts of src/src/OpenMenuOS.{h,cpp}:            *)
(*   - SettingsScreen's setting store (add*Setting, modify, saveToEEPROM)  *)
(*     under the specifications SpecSettings, SpecLookup and SpecCap;      *)
(*   - generateId under SpecId;                                            *)
(*   - PopupManager (show, update, handleInput, hide) under SpecPopup;     *)
(*   - ScreenManager, OpenMenuOS::begin/loop and the screens' handleInput  *)
(*     under Spec, and under SpecInput with the buttons polled at every    *)
(*     change;                                                             *)
(*   - encoderISR against the statements that read the encoder under       *)
(*     SpecEncoder, and its quadrature decoding under SpecKnob;            *)
(*   - drawCanvasOnTFT, the canvas and the panel under SpecDisplay;        *)
(*   - two SettingsScreen instances over the one store under SpecShared.   *)
(* Times are milliseconds as millis() returns them (uint32_t).             *)
(***************************************************************************)
EXTENDS Integers, Sequences, FiniteSets, TLC

VARIABLES
    \* ---- SettingsScreen (the first instance) and the durable store ----
    settings,                 \* std::vector<Setting *> settings
    totalSettings,            \* uint8_t totalSettings
    item_selected_settings,   \* int item_selected_settings
    currentSettingIndex,      \* int currentSettingIndex
    settingSelectLock,        \* bool settingSelectLock
    store,                    \* Preferences namespace "Settings": key -> record
    preferencesInitialized,   \* static bool preferencesInitialized
    \* ---- history of the last API call (what it was given and returned) ----
    call,                     \* the last call: its name, direction and target
    run,                      \* the consecutive modify calls acting on one setting
    boot,                     \* what setup() passed: the defaults, begin()'s root; the settings modified since
    hold,                     \* the button held down: since when, the steps it has produced
    shown,                    \* the popup on screen: what lay under it when it appeared
    poll,                     \* the encoder: its pins, and where handleInput is in reading it
    second,                   \* a second SettingsScreen instance: its settings, the defaults given
    \* ---- the display: the sprite canvas, the panel, drawCanvasOnTFT's statics ----
    tft,
    \* ---- the board: clock, pins, rotary encoder ----
    now,                      \* millis(): the uint32_t counter, as its bit pattern
    ticks,                    \* how many times the clock has advanced
    inputs,                   \* how many times a button or the knob has moved
    calls,                    \* how many times the sketch has called the navigation
    buttonVoltage,            \* int buttonVoltage: HIGH (1) or LOW (0)
    selectPin,                \* digitalRead(BUTTON_SELECT_PIN) == buttonVoltage
    upPin,                    \* digitalRead(BUTTON_UP_PIN) == buttonVoltage
    downPin,                  \* digitalRead(BUTTON_DOWN_PIN) == buttonVoltage
    useEncoder,               \* bool useEncoder
    encoderPosition,          \* volatile int encoderPosition
    encoderChanged,           \* volatile bool encoderChanged
    \* ---- PopupManager: its static members and handleInput's statics ----
    pm,
    \* ---- ScreenManager screenManager and the global Screen *currentScreen ----
    smCurrentScreen,          \* screenManager.currentScreen
    screenHistory,            \* screenManager.screenHistory
    currentScreen,            \* ::currentScreen
    \* ---- the screens ----
    menus,                    \* per MenuScreen: currentItemIndex, itemSize
    item_selected_settings_previous,
    item_selected_settings_next,
    prevSelectState,          \* int prevSelectState (global) == buttonVoltage
    mh,                       \* the statics of MenuScreen::handleInput
    sh,                       \* the statics of SettingsScreen::handleInput
    ch,                       \* the statics of CustomScreen::handleInput
    \* ---- history ----
    last,                     \* the last call observed: what it was and returned
    quiet                     \* no button or encoder was touched since show()

settingsVars == <<settings, totalSettings, item_selected_settings,
                  currentSettingIndex, settingSelectLock, store,
                  preferencesInitialized, second>>

boardVars == <<now, ticks, inputs, calls, buttonVoltage, selectPin, upPin, downPin, useEncoder,
               encoderPosition, encoderChanged>>

screenVars == <<smCurrentScreen, screenHistory, currentScreen, menus,
                item_selected_settings_previous, item_selected_settings_next,
                prevSelectState, mh, sh, ch>>

(* What the settings store's operations leave alone. *)
appVars == <<boardVars, screenVars, pm, last, quiet, hold, shown, poll, tft>>

vars == <<settings, totalSettings, item_selected_settings,
          currentSettingIndex, settingSelectLock, store, preferencesInitialized,
          call, run, boot, hold, shown, poll, second, tft, now, ticks, inputs, calls, buttonVoltage, selectPin, upPin, downPin,
          useEncoder, encoderPosition, encoderChanged, pm,
          smCurrentScreen, screenHistory, currentScreen, menus,
          item_selected_settings_previous, item_selected_settings_next,
          prevSelectState, mh, sh, ch, last, quiet>>

----------------------------------------------------------------------------
(* Bounds of the model *)

MaxSettings == 2

MaxRun == 3

----------------------------------------------------------------------------
(* Fixed-width integers *)

U8(x)  == x % 256
U16(x) == x % 65536

(* Arduino's constrain(amt, low, high) macro, evaluated on int operands. *)
ConstrainNoClamp(amt, low, high) == amt

constrain(amt, low, high) ==
    IF amt < low THEN low ELSE IF amt > high THEN high ELSE amt

----------------------------------------------------------------------------
(* Setting: type, id *)

SettingTypes == {"BOOLEAN", "RANGE", "OPTION", "SUBSCREEN"}

(* enum Type { BOOLEAN, RANGE, OPTION, SUBSCREEN } as static_cast<uint8_t> *)
TypeCode(t) ==
    CASE t = "BOOLEAN"   -> 0
      [] t = "RANGE"     -> 1
      [] t = "OPTION"    -> 2
      [] t = "SUBSCREEN" -> 3

(* The while loop of generateId: hash = (hash << 5) - hash + *ptr, in uint16_t. *)
RECURSIVE HashName(_, _)
HashName(name, hash) ==
    IF name = <<>> THEN hash
    ELSE HashName(Tail(name), U16(hash * 32 - hash + Head(name)))

GenerateIdKeepsZero(name, type) ==
    IF type = "SUBSCREEN" THEN 0
    ELSE U16(HashName(name, 0) * 8 - HashName(name, 0) + TypeCode(type))

generateId(name, type) ==
    IF type = "SUBSCREEN" THEN 0
    ELSE LET h0 == HashName(name, 0)
             h1 == U16(h0 * 8 - h0 + TypeCode(type))
         IN  IF h1 = 0 THEN 1 ELSE h1

(* A Setting object. value is the union {booleanValue, rangeValue, optionIndex}: *)
(* one byte; a BOOLEAN holds 0 or 1.                                             *)
NewSetting(name, type) ==
    [name |-> name, type |-> type, id |-> generateId(name, type),
     value |-> 0, min |-> 0, max |-> 0, optionCount |-> 0, subScreen |-> 0]

----------------------------------------------------------------------------
(* The durable store (ESP32 Preferences): a function from keys (the ids) to  *)
(* typed records.                                                            *)

NoStore == [k \in {} |-> 0]

settingExists(st, id) == id \in DOMAIN st

Put(st, id, kind, v) ==
    [k \in DOMAIN st \cup {id} |-> IF k = id THEN [kind |-> kind, val |-> v] ELSE st[k]]

(* preferences.getBool(key, false) / preferences.getInt(key, 0) *)
getBooleanFromEEPROM(st, id) ==
    IF id \in DOMAIN st /\ st[id].kind = "bool" THEN st[id].val ELSE 0

getRangeFromEEPROM(st, id) ==
    IF id \in DOMAIN st /\ st[id].kind = "int" THEN U8(st[id].val) ELSE 0

getOptionIndexFromEEPROM(st, id) ==
    IF id \in DOMAIN st /\ st[id].kind = "int" THEN U8(st[id].val) ELSE 0

(* saveToEEPROM: for (i = 0; i < totalSettings; i++) write settings[i]. *)
RECURSIVE SaveFrom(_, _, _, _)
SaveFrom(sts, total, i, st) ==
    IF i > total \/ i > Len(sts) THEN st
    ELSE LET s == sts[i]
             st1 == CASE s.type = "BOOLEAN" -> Put(st, s.id, "bool", s.value)
                      [] s.type = "RANGE"   -> Put(st, s.id, "int", s.value)
                      [] s.type = "OPTION"  -> Put(st, s.id, "int", s.value)
                      [] OTHER              -> st
         IN  SaveFrom(sts, total, i + 1, st1)

saveToEEPROM(sts, total, st) == SaveFrom(sts, total, 1, st)

----------------------------------------------------------------------------
(* SettingsScreen::modify *)

(* C's % truncates toward zero. *)
CRem(a, b) == IF a >= 0 THEN a % b ELSE -((-a) % b)

BoolToggleOnlyPositive(v, direction) == IF direction > 0 THEN (IF v = 0 THEN 1 ELSE 0) ELSE v

(* case Setting::BOOLEAN: s->booleanValue = !s->booleanValue; *)
BoolToggle(v, direction) == IF v = 0 THEN 1 ELSE 0

(* case Setting::RANGE: s->rangeValue = constrain(s->rangeValue + direction, min, max); *)
RangeStep(v, direction, lo, hi) == U8(constrain(v + direction, lo, hi))

(* case Setting::OPTION: s->optionIndex = (s->optionIndex + direction + s->optionCount) % s->optionCount; *)
OptionStep(v, direction, count) == U8(CRem(v + direction + count, count))

(* The switch (s->type) of both modify overloads. *)
ModifySetting(s, direction) ==
    CASE s.type = "BOOLEAN" -> [s EXCEPT !.value = BoolToggle(s.value, direction)]
      [] s.type = "RANGE"   -> [s EXCEPT !.value = RangeStep(s.value, direction, s.min, s.max)]
      [] s.type = "OPTION"  -> [s EXCEPT !.value = OptionStep(s.value, direction, s.optionCount)]
      [] OTHER              -> s

(* modify(int8_t direction, int index): Setting *s = settings[item_selected_settings]; *)
(* the position (0-based) of the setting the call works on.                           *)
ModifyIndexTarget(index, selected) == selected

(* modify(int8_t direction, const char *name): the first setting whose name matches, *)
(* or -1.                                                                            *)
RECURSIVE FindByName(_, _, _, _)
FindByName(sts, total, name, i) ==
    IF i >= total \/ i >= Len(sts) THEN -1
    ELSE IF sts[i + 1].name = name THEN i
    ELSE FindByName(sts, total, name, i + 1)

----------------------------------------------------------------------------
(* What the model remembers of the calls made *)

(* arg is the index or name the call was given, target the position it acted *)
(* on, writes the number of records it put into the store.                   *)
NoCall == [op |-> "none", dir |-> 0, arg |-> -1, target |-> -1, writes |-> 0]

(* Since power-on: the default each registration call was given (by position), *)
(* and the positions modify has acted on.                                      *)
NoBoot == [defaults |-> <<>>, modified |-> {}, root |-> 0]

(* handleInput is not reading the encoder. *)
NoPoll ==
    [pc |-> "idle", newPosition |-> 0, pins |-> 0, oldState |-> 0, edges |-> 0,
     fresh |-> FALSE, settled |-> FALSE]

(* No popup is on screen. *)
NoShown == [state |-> "none"]

(* No button is held down. *)
NoHold ==
    [button |-> "none", since |-> 0, screen |-> 0, clean |-> TRUE, couldGoBack |-> FALSE,
     down |-> FALSE, done |-> TRUE, length |-> 0, seen |-> 0, steps |-> 0, early |-> 0,
     first |-> 0, lastStep |-> 0, minGap |-> 0, pops |-> 0, at |-> 0]

NoRun == [t |-> -1, start |-> 0, n |-> 0, plus1 |-> FALSE]

(* The run of consecutive modify calls that acted on position t. *)
RunAfter(r, t, direction, preValue) ==
    IF r.t = t /\ r.n < MaxRun
    THEN [r EXCEPT !.n = @ + 1, !.plus1 = @ /\ direction = 1]
    ELSE [t |-> t, start |-> preValue, n |-> 1, plus1 |-> direction = 1]

----------------------------------------------------------------------------
(* The calls the application makes: their arguments *)

Names == {<<97>>, <<98>>}                       \* "a", "b"

Directions == {-128, -1, 0, 1}                  \* int8_t direction

(* addBooleanSetting's name and defaultValue. *)
BooleanParams == {[name |-> <<97>>, def |-> 0], [name |-> <<98>>, def |-> 1]}

(* addRangeSetting's name, min, max, defaultValue: a default inside the range, *)
(* one outside it, and a range with min > max.                                 *)
RangeParams == {[name |-> <<97>>, min |-> 0, max |-> 3, def |-> 1],
                [name |-> <<98>>, min |-> 253, max |-> 255, def |-> 200],
                [name |-> <<98>>, min |-> 2, max |-> 1, def |-> 1]}

(* addOptionSetting's name, count and defaultIndex. *)
OptionParams == {[name |-> <<97>>, count |-> 1, def |-> 0],
                 [name |-> <<98>>, count |-> 2, def |-> 5],
                 [name |-> <<97>>, count |-> 3, def |-> 2]}

(* A record a previous run of the device left in the store. *)
InitialStores ==
    {NoStore, Put(NoStore, generateId(<<97>>, "RANGE"), "int", 200)}

----------------------------------------------------------------------------
(* SettingsScreen: registration *)

HasSetting(sts, name, type) ==
    \E i \in 1..Len(sts) : sts[i].type = type /\ sts[i].name = name

(* The preferences.put* calls one saveToEEPROM() makes. *)
PutCount(sts, total) ==
    Cardinality({i \in 1..Len(sts) : i <= total /\ sts[i].type # "SUBSCREEN"})

(* The settings vector, totalSettings and the store as one value; writes counts *)
(* the records a call put into the store.                                       *)
(* A SettingsScreen as it is constructed, with what setup() will pass it. *)
NoSecond == [settings |-> <<>>, totalSettings |-> 0, defaults |-> <<>>]

Bank == [settings |-> settings, totalSettings |-> totalSettings, store |-> store,
         writes |-> 0]

(* The tail shared by addBooleanSetting, addRangeSetting and addOptionSetting:   *)
(* nothing if the name is registered under this type; else a value for the new   *)
(* setting s (from the store, or the default after saveToEEPROM() has run over   *)
(* the settings registered so far), then push_back.                              *)
Registered(b, s, default, loaded) ==
    IF HasSetting(b.settings, s.name, s.type) THEN b
    ELSE IF ~settingExists(b.store, s.id)
         THEN [settings |-> Append(b.settings, [s EXCEPT !.value = default]),
               totalSettings |-> U8(Len(b.settings) + 1),
               store |-> saveToEEPROM(b.settings, b.totalSettings, b.store),
               writes |-> PutCount(b.settings, b.totalSettings)]
         ELSE [settings |-> Append(b.settings, [s EXCEPT !.value = loaded]),
               totalSettings |-> U8(Len(b.settings) + 1),
               store |-> b.store,
               writes |-> 0]

BooleanRegistered(b, name, defaultValue) ==
    LET s == NewSetting(name, "BOOLEAN")
    IN  Registered(b, s, defaultValue, getBooleanFromEEPROM(b.store, s.id))

RangeRegistered(b, name, min, max, defaultValue) ==
    LET s == [NewSetting(name, "RANGE") EXCEPT !.min = min, !.max = max]
    IN  Registered(b, s, defaultValue, getRangeFromEEPROM(b.store, s.id))

(* if (defaultIndex >= count) defaultIndex = 0;                      *)
(* a stored index that is not below count gives way to the default.  *)
OptionRegistered(b, name, count, defaultIndex) ==
    LET s == [NewSetting(name, "OPTION") EXCEPT !.optionCount = count]
        def == IF defaultIndex >= count THEN 0 ELSE defaultIndex
        got == getOptionIndexFromEEPROM(b.store, s.id)
    IN  Registered(b, s, def, IF got >= count THEN def ELSE got)

(* addSubscreenSetting looks for no earlier registration and touches no store. *)
SubscreenRegistered(b, name, targetScreen) ==
    [b EXCEPT !.settings = Append(@, [NewSetting(name, "SUBSCREEN")
                                          EXCEPT !.subScreen = targetScreen]),
              !.totalSettings = U8(Len(b.settings) + 1)]

(* A registration call returns: b is what it made of the settings and the store. *)
Register(b, name, default, op, initialized) ==
    /\ preferencesInitialized' = initialized
    /\ settings' = b.settings
    /\ totalSettings' = b.totalSettings
    /\ store' = b.store
    /\ call' = [NoCall EXCEPT !.op = op, !.arg = name, !.writes = b.writes]
    /\ run' = NoRun
    /\ boot' = IF Len(b.settings) > Len(settings)
               THEN [boot EXCEPT !.defaults = Append(@, default)]
               ELSE boot
    /\ UNCHANGED <<item_selected_settings, currentSettingIndex, settingSelectLock, second>>
    /\ UNCHANGED appVars

addBooleanSetting(name, defaultValue) ==
    /\ Len(settings) < MaxSettings
    /\ Register(BooleanRegistered(Bank, name, defaultValue), name, defaultValue,
                "addBoolean", TRUE)

addRangeSetting(name, min, max, defaultValue) ==
    /\ Len(settings) < MaxSettings
    /\ Register(RangeRegistered(Bank, name, min, max, defaultValue), name, defaultValue,
                "addRange", TRUE)

addOptionSetting(name, count, defaultIndex) ==
    /\ Len(settings) < MaxSettings
    /\ Register(OptionRegistered(Bank, name, count, defaultIndex), name, defaultIndex,
                "addOption", TRUE)

addSubscreenSetting(name, targetScreen) ==
    /\ Len(settings) < MaxSettings
    /\ Register(SubscreenRegistered(Bank, name, targetScreen), name, 0, "addSubscreen",
                preferencesInitialized)

----------------------------------------------------------------------------
(* SettingsScreen: modify(direction, index) and modify(direction, name) *)

(* The body both overloads run once they hold the setting at position t: the  *)
(* early return on SUBSCREEN, the switch, saveToEEPROM().                     *)
ModifyAt(t, direction, op, arg) ==
    /\ IF settings[t + 1].type = "SUBSCREEN"
       THEN /\ UNCHANGED <<settings, store, boot>>
            /\ run' = NoRun
            /\ call' = [NoCall EXCEPT !.op = op, !.dir = direction, !.arg = arg]
       ELSE /\ settings' = [settings EXCEPT ![t + 1] = ModifySetting(@, direction)]
            /\ store' = saveToEEPROM(settings', totalSettings, store)
            /\ run' = RunAfter(run, t, direction, settings[t + 1].value)
            /\ call' = [op |-> op, dir |-> direction, arg |-> arg, target |-> t,
                        writes |-> PutCount(settings, totalSettings)]
            /\ boot' = [boot EXCEPT !.modified = @ \cup {t + 1}]
    /\ UNCHANGED <<totalSettings, item_selected_settings, currentSettingIndex,
                   settingSelectLock, preferencesInitialized, second>>
    /\ UNCHANGED appVars

(* settings[item_selected_settings] must exist: the code reads it unchecked. *)
modifyIndex(direction, index) ==
    LET t == ModifyIndexTarget(index, item_selected_settings)
    IN  /\ t >= 0 /\ t < Len(settings)
        /\ ModifyAt(t, direction, "modifyIndex", index)

(* A null name (const char *name == nullptr) *)
NullName == <<-1>>

modifyName(direction, name) ==
    LET t == IF name = NullName THEN -1 ELSE FindByName(settings, totalSettings, name, 0)
    IN  IF t < 0
        THEN /\ call' = [NoCall EXCEPT !.op = "modifyName", !.dir = direction, !.arg = name]
             /\ run' = NoRun
             /\ UNCHANGED <<settingsVars, boot, appVars>>
        ELSE ModifyAt(t, direction, "modifyName", name)

----------------------------------------------------------------------------
(* SettingsScreen: the getters *)

(* What a getter call leaves in the call record. *)
Answer(op, arg, ret) ==
    [op |-> op, dir |-> 0, arg |-> arg, target |-> -1, writes |-> 0, ret |-> ret]

FromEndSaturating(index, total) ==
    IF index >= 0 THEN index ELSE IF total + index < 0 THEN 0 ELSE total + index

(* if (index < 0) index = totalSettings + index;  (index is an int) *)
FromEnd(index, total) == IF index < 0 THEN total + index ELSE index

(* String getSettingName(int index): "" is the empty sequence. *)
getSettingName(sts, total, index) ==
    LET i == FromEnd(index, total)
    IN  IF i < 0 \/ i >= total THEN <<>> ELSE sts[i + 1].name

(* The switch of both getSettingValue overloads, after the SUBSCREEN check. *)
RawValue(s) == IF s.type = "SUBSCREEN" THEN 0 ELSE s.value

(* uint8_t getSettingValue(int index) *)
getSettingValue(sts, total, index) ==
    LET i == FromEnd(index, total)
    IN  IF i < 0 \/ i >= total THEN 0 ELSE RawValue(sts[i + 1])

(* uint8_t getSettingValue(const char *name) *)
getSettingValueByName(sts, total, name) ==
    LET t == IF name = NullName THEN -1 ELSE FindByName(sts, total, name, 0)
    IN  IF t < 0 THEN 0 ELSE RawValue(sts[t + 1])

(* Setting::Type getSettingType(uint8_t index): index is the byte the caller's *)
(* argument was converted to, so index < 0 never holds.                        *)
getSettingType(sts, total, index) ==
    LET i == IF index < 0 THEN U8(total + index) ELSE index
    IN  IF i < 0 \/ i >= total THEN "BOOLEAN" ELSE sts[i + 1].type

----------------------------------------------------------------------------
(* SettingsScreen::resetSettings and the restart it ends with *)

(* preferences.remove(key) *)
Remove(st, id) == [k \in DOMAIN st \ {id} |-> st[k]]

ResetToZero(s) == 0

(* s->booleanValue = false; s->rangeValue = s->range.min; s->optionIndex = 0; *)
ResetValue(s) == IF s.type = "RANGE" THEN s.min ELSE 0

(* resetSettings' loop: for (i = 0; i < totalSettings; i++) remove the record *)
(* and reset the value of every setting that is not a SUBSCREEN.              *)
RECURSIVE ResetFrom(_, _)
ResetFrom(b, i) ==
    IF i > b.totalSettings \/ i > Len(b.settings) THEN b
    ELSE LET s == b.settings[i]
         IN  IF s.type = "SUBSCREEN" THEN ResetFrom(b, i + 1)
             ELSE ResetFrom([b EXCEPT !.store = Remove(@, s.id),
                                      !.settings[i].value = ResetValue(s)], i + 1)

(* resetSettings() up to its last statement, esp_restart(): the call record *)
(* tells that the restart is due.                                           *)
resetSettings ==
    LET b == ResetFrom(Bank, 1)
    IN  /\ settings' = b.settings
        /\ store' = b.store
        /\ call' = [NoCall EXCEPT !.op = "resetSettings"]
        /\ run' = NoRun
        /\ UNCHANGED <<totalSettings, item_selected_settings, currentSettingIndex,
                       settingSelectLock, preferencesInitialized, boot, second>>
        /\ UNCHANGED appVars

RestartDue == call.op = "resetSettings"

(* setup() registers a setting again, with the arguments it was given before. *)
RegisteredAgain(b, o, default) ==
    CASE o.type = "BOOLEAN" -> BooleanRegistered(b, o.name, default)
      [] o.type = "RANGE"   -> RangeRegistered(b, o.name, o.min, o.max, default)
      [] o.type = "OPTION"  -> OptionRegistered(b, o.name, o.optionCount, default)
      [] OTHER              -> SubscreenRegistered(b, o.name, o.subScreen)

RECURSIVE SetupAgain(_, _, _, _)
SetupAgain(old, defaults, i, b) ==
    IF i > Len(old) THEN b
    ELSE SetupAgain(old, defaults, i + 1, RegisteredAgain(b, old[i], defaults[i]))

(* The device restarts (esp_restart(), or the power is cycled): what is in   *)
(* memory is lost, the store stays, and setup() makes its registration calls *)
(* again.  The call record keeps what the settings were before.              *)
restart ==
    LET b == SetupAgain(settings, boot.defaults, 1,
                        [settings |-> <<>>, totalSettings |-> 0, store |-> store,
                         writes |-> 0])
    IN  /\ settings' = b.settings
        /\ totalSettings' = b.totalSettings
        /\ store' = b.store
        /\ item_selected_settings' = 0
        /\ currentSettingIndex' = 0
        /\ settingSelectLock' = FALSE
        /\ call' = [op |-> "restart", dir |-> 0, arg |-> -1, target |-> -1, writes |-> 0,
                    before |-> settings, modified |-> boot.modified,
                    afterReset |-> RestartDue]
        /\ run' = NoRun
        /\ boot' = [boot EXCEPT !.modified = {}]
        /\ UNCHANGED <<preferencesInitialized, second>>
        /\ UNCHANGED appVars

----------------------------------------------------------------------------
(* The clock.  millis() is a uint32_t; a value is held as the int32 with the *)
(* same bit pattern (0 .. 2^31-1 as themselves, 2^31 .. 2^32-1 as negative   *)
(* numbers), and sums and differences are taken modulo 2^32 on 16-bit halves.*)

Hi16(x) == x \div 65536
Lo16(x) == x % 65536

(* a - b in uint32_t arithmetic *)
Sub32(a, b) ==
    LET dl == Lo16(a) - Lo16(b)
        dh == Hi16(a) - Hi16(b) + (IF dl < 0 THEN -1 ELSE 0)
    IN  (((dh + 32768) % 65536) - 32768) * 65536 + (dl % 65536)

Add32(a, d) == Sub32(a, -d)

(* Unsigned comparisons of a uint32_t d with a constant k, 0 <= k < 2^31. *)
ULess(d, k) == d >= 0 /\ d < k
UGreater(d, k) == d < 0 \/ d > k

(* int >> 2 *)
Detent(position) == position \div 4

----------------------------------------------------------------------------
(* PopupManager *)

DEBOUNCE_TIME == 200

(* PopupConfig's defaults *)
DefaultConfig ==
    [showButtons |-> TRUE, showCancelButton |-> FALSE, autoClose |-> FALSE,
     autoCloseDelay |-> 3000]

(* The configurations showInfo/showWarning/showError, showSuccess and         *)
(* showQuestion pass to show(), and two the application builds itself: a timed *)
(* banner without buttons and a question that also closes by itself.          *)
InfoConfig == DefaultConfig
SuccessConfig == [DefaultConfig EXCEPT !.autoClose = TRUE]
QuestionConfig == [DefaultConfig EXCEPT !.showCancelButton = TRUE]
BannerConfig ==
    [DefaultConfig EXCEPT !.showButtons = FALSE, !.autoClose = TRUE, !.autoCloseDelay = 300]
TimedQuestionConfig ==
    [DefaultConfig EXCEPT !.showCancelButton = TRUE, !.autoClose = TRUE, !.autoCloseDelay = 300]

PopupConfigs == {InfoConfig, SuccessConfig, QuestionConfig, BannerConfig, TimedQuestionConfig}

(* The static members as defined, and handleInput's function statics as first *)
(* initialised (prevSelectState = prevUpState = !buttonVoltage).              *)
PopupAtReset ==
    [currentResult |-> "NONE", isVisible |-> FALSE, showTime |-> 0,
     config |-> DefaultConfig, lastButtonTime |-> 0, selectedButton |-> 0,
     prevSelectState |-> FALSE, prevUpState |-> FALSE,
     selectButtonPressProcessed |-> FALSE, upButtonPressProcessed |-> FALSE,
     lastEncoderPosition |-> 0]

show(p, config, t) ==
    [p EXCEPT !.config = config, !.currentResult = "NONE", !.isVisible = TRUE,
              !.showTime = t, !.selectedButton = 0]

hide(p) == [p EXCEPT !.isVisible = FALSE, !.currentResult = "NONE"]

isActive(p) == p.isVisible

(* The result a SELECT release sets. *)
SelectResult(p, encoder) ==
    IF encoder /\ p.config.showCancelButton /\ p.selectedButton # 0 THEN "CANCEL" ELSE "OK"

(* handleInput's encoder branch: selectedButton follows the knob. *)
PopupEncoderTurn(p, t, position, changed) ==
    LET newPosition == Detent(position)
    IN  IF changed /\ p.config.showCancelButton /\ newPosition # p.lastEncoderPosition
        THEN [p EXCEPT !.selectedButton = IF newPosition > p.lastEncoderPosition
                                          THEN (@ + 1) % 2 ELSE (@ - 1 + 2) % 2,
                       !.lastEncoderPosition = newPosition,
                       !.lastButtonTime = t]
        ELSE p

(* handleInput's SELECT part (both branches): press start, release, the flag *)
(* reset, prevSelectState.                                                   *)
PopupSelect(p, t, select, encoder) ==
    LET p1 == IF select /\ ~p.selectButtonPressProcessed /\ ~p.prevSelectState
              THEN [p EXCEPT !.selectButtonPressProcessed = TRUE, !.lastButtonTime = t]
              ELSE p
        confirm == ~select /\ p1.prevSelectState /\ p1.selectButtonPressProcessed
        p2 == IF confirm THEN [p1 EXCEPT !.currentResult = SelectResult(p1, encoder)] ELSE p1
    IN  [pm |-> [p2 EXCEPT !.selectButtonPressProcessed = IF select THEN @ ELSE FALSE,
                           !.prevSelectState = select],
         confirm |-> confirm,
         focus |-> p1.selectedButton]

(* handleInput's UP part (button branch): UP cancels when the cancel button shows; *)
(* the flag reset and prevUpState do not depend on showCancelButton.               *)
PopupUp(p, t, up) ==
    LET p1 == IF p.config.showCancelButton /\ up /\ ~p.upButtonPressProcessed /\ ~p.prevUpState
              THEN [p EXCEPT !.upButtonPressProcessed = TRUE, !.lastButtonTime = t]
              ELSE p
        p2 == IF p.config.showCancelButton /\ ~up /\ p1.prevUpState /\ p1.upButtonPressProcessed
              THEN [p1 EXCEPT !.currentResult = "CANCEL"]
              ELSE p1
    IN  [p2 EXCEPT !.upButtonPressProcessed = IF up THEN @ ELSE FALSE,
                   !.prevUpState = up]

(* PopupManager::handleInput(): the new statics, the new encoderChanged flag, *)
(* and whether a SELECT release confirmed the popup (and with which focus).   *)
PopupHandleInput(p, t, select, up, encoder, position, changed) ==
    IF ~p.config.showButtons \/ ULess(Sub32(t, p.lastButtonTime), DEBOUNCE_TIME)
    THEN [pm |-> p, encoderChanged |-> changed, confirm |-> FALSE, focus |-> 0]
    ELSE LET s == IF encoder
                  THEN PopupSelect(PopupEncoderTurn(p, t, position, changed), t, select, TRUE)
                  ELSE PopupSelect(p, t, select, FALSE)
             p1 == IF encoder THEN s.pm ELSE PopupUp(s.pm, t, up)
         IN  [pm |-> IF p1.currentResult # "NONE" THEN hide(p1) ELSE p1,
              encoderChanged |-> IF encoder /\ changed /\ p.config.showCancelButton
                                 THEN FALSE ELSE changed,
              confirm |-> s.confirm,
              focus |-> s.focus]

(* PopupManager::update(): the new state, the value returned, and whether the *)
(* call went on to draw the popup (it returns before that when the popup is  *)
(* not visible or has just closed by itself).                                *)
update(p, t, select, up, encoder, position, changed) ==
    IF ~p.isVisible
    THEN [pm |-> p, encoderChanged |-> changed, ret |-> "NONE", confirm |-> FALSE, focus |-> 0,
          painted |-> FALSE]
    ELSE LET h == PopupHandleInput(p, t, select, up, encoder, position, changed)
         IN  IF h.pm.config.autoClose
                  /\ UGreater(Sub32(t, h.pm.showTime), h.pm.config.autoCloseDelay)
             THEN [pm |-> hide(h.pm), encoderChanged |-> h.encoderChanged, ret |-> "OK",
                   confirm |-> h.confirm, focus |-> h.focus, painted |-> FALSE]
             ELSE [pm |-> h.pm, encoderChanged |-> h.encoderChanged,
                   ret |-> h.pm.currentResult, confirm |-> h.confirm, focus |-> h.focus,
                   painted |-> TRUE]

----------------------------------------------------------------------------
(* Screens.  A Screen* is 0 (nullptr) or the number of a screen the sketch    *)
(* constructs: the main MenuScreen, a SettingsScreen and a CustomScreen.      *)

NullScreen == 0
MainMenu == 1
SettingsMenu == 2
CustomPage == 3

Screens == {MainMenu, SettingsMenu, CustomPage}

MenuScreens == {MainMenu}

(* The items addItem() gave each MenuScreen: one opens the settings, one runs *)
(* a callback that asks a question in a popup, one opens the custom screen.   *)
MenuItems(m) ==
    << [nextScreen |-> SettingsMenu, action |-> "none"],
       [nextScreen |-> NullScreen, action |-> "showQuestion"],
       [nextScreen |-> CustomPage, action |-> "none"] >>

(* The settings the sketch registers on an empty store: a BOOLEAN, a RANGE    *)
(* 0..1 and a SUBSCREEN leading to the custom screen.                         *)
SketchSettings ==
    << NewSetting(<<97>>, "BOOLEAN"),
       [NewSetting(<<98>>, "RANGE") EXCEPT !.max = 1, !.value = 1],
       [NewSetting(<<99>>, "SUBSCREEN") EXCEPT !.subScreen = CustomPage] >>

(* addRangeSetting saved the settings registered before it. *)
SketchStore == saveToEEPROM(SubSeq(SketchSettings, 1, 1), 1, NoStore)

SHORT_PRESS_TIME == 300
LONG_PRESS_TIME_MENU == 500
SELECT_BUTTON_LONG_PRESS_DURATION == 300

(* The statics of one UP or DOWN button in a handleInput. *)
ButtonAtReset ==
    [prev |-> FALSE, pressedTime |-> 0, isPressing |-> FALSE, isLongDetected |-> FALSE,
     processed |-> FALSE, lastScrollTime |-> 0]

(* The statics of the SELECT button in a handleInput. *)
SelectAtReset ==
    [pressedTime |-> 0, isPressing |-> FALSE, isLongDetected |-> FALSE, processed |-> FALSE]

HandlerAtReset ==
    [lastPosition |-> 0, up |-> ButtonAtReset, down |-> ButtonAtReset, select |-> SelectAtReset]

CustomAtReset == [selectClicked |-> FALSE, longPressHandled |-> FALSE, selectPressTime |-> 0]

(* MenuScreen::initializeDefaults *)
MenuAtReset == [currentItemIndex |-> 0, itemSize |-> 0]

(* ---- The display ---- *)

(* The canvas is the sequence of the layers painted on it since it was last  *)
(* filled with black; a layer names the surface that painted it (a screen,   *)
(* or PopupSurface) and what that surface showed.  A surface painting again  *)
(* over its own layer replaces it: draw() and the popup repaint all they     *)
(* show.  Two canvases hold the same bytes exactly if they are equal.        *)
PopupSurface == -1

(* A buffer filled with one byte value, and one never written. *)
Filled(byte) == <<[of |-> -2, fill |-> byte]>>

MemsetFF == Filled(255)

NoFrame == Filled(-1)

(* What the panel shows before the first pushSprite. *)
PowerOn == Filled(-2)

Paint(canvas, layer) ==
    IF canvas # <<>> /\ canvas[Len(canvas)].of = layer.of
    THEN [canvas EXCEPT ![Len(canvas)] = layer]
    ELSE Append(canvas, layer)

(* What drawBackground, drawHeader and drawContent paint: the popup as        *)
(* configured and, with an encoder, the button in focus.                     *)
PopupLayer(p, encoder) ==
    [of |-> PopupSurface, config |-> p.config,
     focus |-> IF encoder /\ p.config.showButtons THEN p.selectedButton ELSE 0]

(* optimizeDisplayUpdates = false; lastFrame, currentFrame and               *)
(* buffersInitialized are drawCanvasOnTFT's statics; mallocFails tells       *)
(* whether the board lacks the memory for the two frame buffers.             *)
TftAtReset ==
    [optimizeDisplayUpdates |-> FALSE, mallocFails |-> FALSE, buffersInitialized |-> FALSE,
     canvas |-> <<>>, lastFrame |-> NoFrame, currentFrame |-> NoFrame, panel |-> PowerOn]

(* What one drawCanvasOnTFT() call found and did: the canvas it was given,   *)
(* whether a popup was active then, whether update() ran, how often it       *)
(* pushed the canvas to the panel and what it pushed, whether it filled the  *)
(* canvas with black.                                                        *)
NoShot ==
    [called |-> FALSE, composed |-> <<>>, popup |-> FALSE, updated |-> FALSE, blits |-> 0,
     pushed |-> <<>>, cleared |-> FALSE, before |-> PowerOn]

(* The state the calls below work on, as one record; drawn lists the screens  *)
(* whose draw() ran, rendered the previous/selected/next rows each of these   *)
(* draws showed, steps the UP, DOWN and knob steps a handleInput() produced,  *)
(* ret is what popScreen returned, handled tells whether a screen's           *)
(* handleInput() ran.                                                         *)
World ==
    [smCurrentScreen |-> smCurrentScreen, screenHistory |-> screenHistory,
     currentScreen |-> currentScreen, menus |-> menus,
     settings |-> settings, totalSettings |-> totalSettings, store |-> store,
     item_selected_settings |-> item_selected_settings,
     item_selected_settings_previous |-> item_selected_settings_previous,
     item_selected_settings_next |-> item_selected_settings_next,
     currentSettingIndex |-> currentSettingIndex,
     settingSelectLock |-> settingSelectLock,
     prevSelectState |-> prevSelectState, mh |-> mh, sh |-> sh, ch |-> ch,
     encoderChanged |-> encoderChanged, pm |-> pm, tft |-> tft,
     drawn |-> <<>>, rendered |-> <<>>, steps |-> <<>>, ret |-> FALSE, handled |-> FALSE,
     shot |-> NoShot]

Commit(w) ==
    /\ smCurrentScreen' = w.smCurrentScreen
    /\ screenHistory' = w.screenHistory
    /\ currentScreen' = w.currentScreen
    /\ menus' = w.menus
    /\ settings' = w.settings
    /\ totalSettings' = w.totalSettings
    /\ store' = w.store
    /\ item_selected_settings' = w.item_selected_settings
    /\ item_selected_settings_previous' = w.item_selected_settings_previous
    /\ item_selected_settings_next' = w.item_selected_settings_next
    /\ currentSettingIndex' = w.currentSettingIndex
    /\ settingSelectLock' = w.settingSelectLock
    /\ prevSelectState' = w.prevSelectState
    /\ mh' = w.mh
    /\ sh' = w.sh
    /\ ch' = w.ch
    /\ encoderChanged' = w.encoderChanged
    /\ pm' = w.pm
    /\ tft' = w.tft
    /\ second' = second

(* The selection index of screen s (a CustomScreen has none). *)
SelectionIndex(w, s) ==
    IF s \in MenuScreens THEN w.menus[s].currentItemIndex
    ELSE IF s = SettingsMenu THEN w.item_selected_settings
    ELSE 0

(* The rows MenuScreen::draw shows: it computes the neighbours itself. *)
MenuRows(m, index, size) ==
    [screen |-> m, previous |-> CRem(index - 1 + size, size), selected |-> index,
     next |-> CRem(index + 1, size), size |-> size]

(* The rows SettingsScreen::draw shows: it reads the members handleInput keeps. *)
SettingsRows(w) ==
    [screen |-> SettingsMenu, previous |-> w.item_selected_settings_previous,
     selected |-> w.item_selected_settings, next |-> w.item_selected_settings_next,
     size |-> w.totalSettings]

(* The value SettingsScreen::draw shows in row i, if it is a row. *)
ValueShown(w, i) ==
    IF i >= 0 /\ i < w.totalSettings THEN RawValue(w.settings[i + 1]) ELSE -1

(* What draw() paints: a MenuScreen its three rows, the SettingsScreen its   *)
(* three rows with their values and the lock, the CustomScreen what its      *)
(* customDraw paints (a fixed page).                                         *)
ScreenLayer(w, s) ==
    IF s \in MenuScreens
    THEN [of |-> s, rows |-> MenuRows(s, w.menus[s].currentItemIndex, Len(MenuItems(s)))]
    ELSE IF s = SettingsMenu
    THEN [of |-> s, rows |-> SettingsRows(w),
          values |-> << ValueShown(w, w.item_selected_settings_previous),
                        ValueShown(w, w.item_selected_settings),
                        ValueShown(w, w.item_selected_settings_next) >>,
          lock |-> w.settingSelectLock]
    ELSE [of |-> s]

(* Screen::draw(): MenuScreen::draw sets itemSize = items.size(); the others *)
(* only read their state.  Of the pixels, the rows shown are modelled.       *)
draw(w, s) ==
    LET w1 == [w EXCEPT !.drawn = Append(@, s),
                        !.tft.canvas = Paint(@, ScreenLayer(w, s))]
    IN  IF s \in MenuScreens
        THEN [w1 EXCEPT !.menus[s].itemSize = Len(MenuItems(s)),
                        !.rendered = Append(@, MenuRows(s, w.menus[s].currentItemIndex,
                                                        Len(MenuItems(s))))]
        ELSE IF s = SettingsMenu
        THEN [w1 EXCEPT !.rendered = Append(@, SettingsRows(w))]
        ELSE w1

----------------------------------------------------------------------------
(* ScreenManager *)

(* popScreen without the update of the global reference. *)
PopScreenLocal(w) ==
    IF w.screenHistory = <<>> THEN [w EXCEPT !.ret = FALSE]
    ELSE LET back == w.screenHistory[Len(w.screenHistory)]
         IN  [draw([w EXCEPT !.smCurrentScreen = back,
                             !.screenHistory = SubSeq(@, 1, Len(@) - 1)], back)
                  EXCEPT !.ret = TRUE]

CanGoBackDeep(h) == Len(h) > 1

canGoBack(h) == h # <<>>

getDepth(h) == Len(h)

HistoryNotSaved(h, cur) == h

(* if (currentScreen != nullptr) screenHistory.push_back(currentScreen); *)
HistoryAfterPush(h, cur) == IF cur # NullScreen THEN Append(h, cur) ELSE h

PushScreenUnchecked(w, newScreen) ==
    [w EXCEPT !.smCurrentScreen = newScreen, !.currentScreen = newScreen,
              !.drawn = Append(@, newScreen)]

pushScreen(w, newScreen) ==
    IF newScreen = NullScreen THEN w
    ELSE LET w1 == [w EXCEPT !.screenHistory = HistoryAfterPush(@, w.smCurrentScreen),
                             !.smCurrentScreen = newScreen]
         IN  [draw(w1, newScreen) EXCEPT !.currentScreen = newScreen]

popScreen(w) ==
    IF w.screenHistory = <<>> THEN [w EXCEPT !.ret = FALSE]
    ELSE LET back == w.screenHistory[Len(w.screenHistory)]
             w1 == [w EXCEPT !.smCurrentScreen = back,
                             !.screenHistory = SubSeq(@, 1, Len(@) - 1)]
             w2 == IF back # NullScreen THEN draw(w1, back) ELSE w1
         IN  [w2 EXCEPT !.currentScreen = back, !.ret = TRUE]

(* OpenMenuOS::navigateBack *)
navigateBack(w) == IF canGoBack(w.screenHistory) THEN popScreen(w) ELSE w

(* OpenMenuOS::begin(mainMenu): returns at once on nullptr; the display, the *)
(* pins and the encoder's interrupts are set up, the canvas is created and   *)
(* filled with black, then the main menu is pushed.                          *)
begin(w, mainMenu) ==
    IF mainMenu = NullScreen THEN w
    ELSE pushScreen([w EXCEPT !.tft.canvas = <<>>], mainMenu)

----------------------------------------------------------------------------
(* The screens' handleInput() *)

(* One UP or DOWN button, as MenuScreen::handleInput and                     *)
(* SettingsScreen::handleInput treat it: press start, long press while held, *)
(* a repeat every 200 ms once long, the release.  fire tells whether this    *)
(* call acts (a repeat, or the release of a short press).  pressDuration is  *)
(* a long: the difference read as signed.                                    *)
PressHoldRelease(b, level, t) ==
    LET b1 == IF level /\ ~b.processed /\ ~b.prev
              THEN [b EXCEPT !.pressedTime = t, !.isPressing = TRUE,
                             !.isLongDetected = FALSE, !.processed = TRUE]
              ELSE b
        b2 == IF b1.isPressing /\ ~b1.isLongDetected
                   /\ Sub32(t, b1.pressedTime) > LONG_PRESS_TIME_MENU
              THEN [b1 EXCEPT !.isLongDetected = TRUE]
              ELSE b1
        repeat == b2.isPressing /\ b2.isLongDetected
                     /\ ~ULess(Sub32(t, b2.lastScrollTime), 200)
        b3 == IF repeat THEN [b2 EXCEPT !.lastScrollTime = t] ELSE b2
        release == ~level /\ b3.prev
        short == release /\ Sub32(t, b3.pressedTime) < SHORT_PRESS_TIME /\ ~b3.isLongDetected
        b4 == IF release THEN [b3 EXCEPT !.isPressing = FALSE, !.processed = FALSE] ELSE b3
    IN  [b |-> [b4 EXCEPT !.prev = level], fire |-> repeat \/ short]

(* The SELECT button of MenuScreen::handleInput and                          *)
(* SettingsScreen::handleInput: long tells whether this call detects the     *)
(* long press, short whether it sees the release of a short press.           *)
SelectPressRelease(s, prev, level, t) ==
    LET s1 == IF level /\ ~s.processed /\ ~prev
              THEN [s EXCEPT !.pressedTime = t, !.isPressing = TRUE,
                             !.isLongDetected = FALSE, !.processed = TRUE]
              ELSE s
        long == s1.isPressing /\ ~s1.isLongDetected
                   /\ Sub32(t, s1.pressedTime) > SELECT_BUTTON_LONG_PRESS_DURATION
        s2 == IF long THEN [s1 EXCEPT !.isLongDetected = TRUE] ELSE s1
        release == ~level /\ prev
        short == release /\ Sub32(t, s2.pressedTime) < SHORT_PRESS_TIME /\ ~s2.isLongDetected
        s3 == IF release THEN [s2 EXCEPT !.isPressing = FALSE, !.processed = FALSE] ELSE s2
    IN  [s |-> s3, long |-> long, short |-> short]

(* if (screenManager.canGoBack()) screenManager.popScreen(); *)
LongPressBack(w) == IF canGoBack(w.screenHistory) THEN popScreen(w) ELSE w

(* ---- MenuScreen ---- *)

(* MenuUp stopping at the first item. *)
MenuUpStopping(w, m) ==
    [w EXCEPT !.menus[m].currentItemIndex = IF @ = 0 THEN 0 ELSE @ - 1]

MenuUp(w, m) ==
    [w EXCEPT !.menus[m].currentItemIndex =
                  CRem(@ - 1 + w.menus[m].itemSize, w.menus[m].itemSize)]

MenuDown(w, m) ==
    [w EXCEPT !.menus[m].currentItemIndex = CRem(@ + 1, w.menus[m].itemSize)]

(* item.action(): the callbacks the sketch registered. *)
RunAction(w, action) ==
    IF action = "showQuestion" THEN [w EXCEPT !.pm = show(@, QuestionConfig, now)] ELSE w

MenuShortPress(w, m) ==
    LET item == MenuItems(m)[w.menus[m].currentItemIndex + 1]
        w1 == RunAction(w, item.action)
    IN  IF item.nextScreen # NullScreen THEN pushScreen(w1, item.nextScreen) ELSE w1

(* The UP button, then the DOWN button. *)
MenuUpButton(w, m) ==
    LET u == PressHoldRelease(w.mh.up, upPin, now)
    IN  [(IF u.fire THEN MenuUp(w, m) ELSE w)
             EXCEPT !.mh.up = u.b, !.steps = IF u.fire THEN Append(@, "up") ELSE @]

MenuDownButton(w, m) ==
    LET d == PressHoldRelease(w.mh.down, downPin, now)
    IN  [(IF d.fire THEN MenuDown(w, m) ELSE w)
             EXCEPT !.mh.down = d.b, !.steps = IF d.fire THEN Append(@, "down") ELSE @]

MenuRotate(w, m) ==
    IF useEncoder
    THEN IF w.encoderChanged
         THEN LET newPosition == Detent(encoderPosition)
                  w1 == IF newPosition = w.mh.lastPosition THEN w
                        ELSE [(IF newPosition > w.mh.lastPosition
                               THEN MenuDown(w, m) ELSE MenuUp(w, m))
                                  EXCEPT !.mh.lastPosition = newPosition,
                                         !.steps = Append(@, IF newPosition > w.mh.lastPosition
                                                             THEN "cw" ELSE "ccw")]
              IN  [w1 EXCEPT !.encoderChanged = FALSE]
         ELSE w
    ELSE MenuDownButton(MenuUpButton(w, m), m)

(* The SELECT button: a long press goes back, a short press runs the item. *)
MenuSelectButton(w, m) ==
    LET s == SelectPressRelease(w.mh.select, w.prevSelectState, selectPin, now)
        w2 == IF s.long THEN LongPressBack(w) ELSE w
        w3 == IF s.short THEN MenuShortPress(w2, m) ELSE w2
    IN  draw([w3 EXCEPT !.mh.select = s.s, !.prevSelectState = selectPin,
                        !.steps = IF s.short THEN Append(@, "short") ELSE @], m)

MenuScreenHandleInput(w, m) == MenuSelectButton(MenuRotate(w, m), m)

(* ---- SettingsScreen ---- *)

(* modify(direction, index) called from handleInput: no call record is kept. *)
modify(w, direction, index) ==
    LET t == ModifyIndexTarget(index, w.item_selected_settings)
    IN  IF w.settings[t + 1].type = "SUBSCREEN" THEN w
        ELSE LET sts == [w.settings EXCEPT ![t + 1] = ModifySetting(@, direction)]
             IN  [w EXCEPT !.settings = sts,
                           !.store = saveToEEPROM(sts, w.totalSettings, @)]

(* AdjustsValue without the lock. *)
AdjustsValueUnlocked(w) == w.settings[w.currentSettingIndex + 1].type # "BOOLEAN"

(* settingSelectLock && settings[currentSettingIndex]->type != Setting::BOOLEAN *)
AdjustsValue(w) ==
    w.settingSelectLock /\ w.settings[w.currentSettingIndex + 1].type # "BOOLEAN"

(* The UP button: the value up, or the selection one row up. *)
SettingsUp(w) ==
    IF AdjustsValue(w) THEN modify(w, 1, w.currentSettingIndex)
    ELSE [w EXCEPT !.item_selected_settings =
                       IF @ - 1 < 0 THEN w.totalSettings - 1 ELSE @ - 1]

(* The DOWN button: the value down, or the selection one row down. *)
SettingsDown(w) ==
    IF AdjustsValue(w) THEN modify(w, -1, w.currentSettingIndex)
    ELSE [w EXCEPT !.item_selected_settings =
                       IF @ + 1 >= w.totalSettings THEN 0 ELSE @ + 1]

(* The knob turned clockwise / counterclockwise. *)
SettingsClockwise(w) ==
    IF AdjustsValue(w) THEN modify(w, 1, w.currentSettingIndex)
    ELSE [w EXCEPT !.item_selected_settings = CRem(@ + 1, w.totalSettings)]

SettingsCounterclockwise(w) ==
    IF AdjustsValue(w) THEN modify(w, -1, w.currentSettingIndex)
    ELSE [w EXCEPT !.item_selected_settings =
                       CRem(@ - 1 + w.totalSettings, w.totalSettings)]

SettingsUpButton(w) ==
    LET u == PressHoldRelease(w.sh.up, upPin, now)
    IN  [(IF u.fire THEN SettingsUp(w) ELSE w)
             EXCEPT !.sh.up = u.b, !.steps = IF u.fire THEN Append(@, "up") ELSE @]

SettingsDownButton(w) ==
    LET d == PressHoldRelease(w.sh.down, downPin, now)
    IN  [(IF d.fire THEN SettingsDown(w) ELSE w)
             EXCEPT !.sh.down = d.b, !.steps = IF d.fire THEN Append(@, "down") ELSE @]

SettingsRotate(w) ==
    IF useEncoder
    THEN IF w.encoderChanged
         THEN LET newPosition == Detent(encoderPosition)
                  w1 == IF newPosition = w.sh.lastPosition THEN w
                        ELSE [(IF newPosition > w.sh.lastPosition
                               THEN SettingsClockwise(w) ELSE SettingsCounterclockwise(w))
                                  EXCEPT !.sh.lastPosition = newPosition,
                                         !.steps = Append(@, IF newPosition > w.sh.lastPosition
                                                             THEN "cw" ELSE "ccw")]
              IN  [w1 EXCEPT !.encoderChanged = FALSE]
         ELSE w
    ELSE SettingsDownButton(SettingsUpButton(w))

(* item_selected_settings_previous and item_selected_settings_next *)
SettingsNeighbours(w) ==
    [w EXCEPT !.item_selected_settings_previous =
                  IF w.item_selected_settings - 1 < 0
                  THEN w.totalSettings - 1 ELSE w.item_selected_settings - 1,
              !.item_selected_settings_next =
                  IF w.item_selected_settings + 1 >= w.totalSettings
                  THEN 0 ELSE w.item_selected_settings + 1]

SettingsShortPress(w) ==
    IF w.item_selected_settings >= 0 /\ w.item_selected_settings < w.totalSettings
    THEN LET w1 == [w EXCEPT !.currentSettingIndex = w.item_selected_settings]
             s == w1.settings[w1.currentSettingIndex + 1]
             w2 == CASE s.type = "BOOLEAN"   -> modify(w1, 1, w1.item_selected_settings)
                     [] s.type = "SUBSCREEN" -> pushScreen(w1, s.subScreen)
                     [] OTHER -> [w1 EXCEPT !.settingSelectLock = ~@]
         IN  draw(w2, SettingsMenu)
    ELSE w

(* The SELECT button: a long press goes back, a short press acts on the row. *)
SettingsSelectButton(w) ==
    LET s == SelectPressRelease(w.sh.select, w.prevSelectState, selectPin, now)
        w2 == IF s.long THEN LongPressBack(w) ELSE w
        w3 == IF s.short THEN SettingsShortPress(w2) ELSE w2
    IN  draw([w3 EXCEPT !.sh.select = s.s, !.prevSelectState = selectPin,
                        !.steps = IF s.short THEN Append(@, "short") ELSE @], SettingsMenu)

SettingsScreenHandleInput(w) ==
    SettingsSelectButton(SettingsNeighbours(SettingsRotate(w)))

(* ---- CustomScreen ---- *)

CustomScreenHandleInput(w, c) ==
    LET w1 ==
          IF selectPin
          THEN IF ~w.ch.selectClicked /\ ~w.ch.longPressHandled
               THEN [w EXCEPT !.ch.selectPressTime = now, !.ch.selectClicked = TRUE]
               ELSE IF ~ULess(Sub32(now, w.ch.selectPressTime), SELECT_BUTTON_LONG_PRESS_DURATION)
                         /\ ~w.ch.longPressHandled
                    THEN [LongPressBack(w) EXCEPT !.ch.longPressHandled = TRUE,
                                                  !.prevSelectState = TRUE]
                    ELSE w
          ELSE IF w.ch.selectClicked
               THEN [w EXCEPT !.ch.selectClicked = FALSE, !.ch.longPressHandled = FALSE]
               ELSE w
    IN  draw(w1, c)

(* currentScreen->handleInput() *)
handleInput(w, s) ==
    IF s \in MenuScreens THEN MenuScreenHandleInput(w, s)
    ELSE IF s = SettingsMenu THEN SettingsScreenHandleInput(w)
    ELSE CustomScreenHandleInput(w, s)

----------------------------------------------------------------------------
(* OpenMenuOS::loop and drawCanvasOnTFT *)

InputAllowedDespitePopup(cur, p) == cur # NullScreen

(* if (currentScreen != nullptr && !PopupManager::isActive()) *)
InputAllowed(cur, p) == cur # NullScreen /\ ~isActive(p)

(* canvas.pushSprite(0, 0) *)
pushSprite(w) ==
    [w EXCEPT !.tft.panel = w.tft.canvas, !.shot.blits = @ + 1,
              !.shot.pushed = w.tft.canvas]

(* canvas.fillSprite(TFT_BLACK) *)
fillSprite(w) == [w EXCEPT !.tft.canvas = <<>>, !.shot.cleared = TRUE]

(* if (PopupManager::isActive()) PopupManager::update(); *)
PopupOnTop(w) ==
    IF isActive(w.pm)
    THEN LET u == update(w.pm, now, selectPin, upPin, useEncoder, encoderPosition,
                         w.encoderChanged)
         IN  [w EXCEPT !.pm = u.pm, !.encoderChanged = u.encoderChanged,
                       !.shot.updated = TRUE,
                       !.tft.canvas = IF u.painted
                                      THEN Paint(@, PopupLayer(u.pm, useEncoder)) ELSE @]
    ELSE w

(* if (!PopupManager::isActive()) canvas.fillSprite(TFT_BLACK); *)
ClearUnlessPopup(w) == IF ~isActive(w.pm) THEN fillSprite(w) ELSE w

(* The path taken when optimizeDisplayUpdates is false. *)
DirectDrawing(w) == ClearUnlessPopup(pushSprite(PopupOnTop(w)))

(* The buffers are allocated in the first call: lastFrame is set to 0xFF     *)
(* bytes, currentFrame is left as malloc returned it.                        *)
BuffersReady(w) ==
    IF w.tft.buffersInitialized THEN w
    ELSE [w EXCEPT !.tft.lastFrame = MemsetFF, !.tft.currentFrame = NoFrame,
                   !.tft.buffersInitialized = TRUE]

(* Swap buffers: lastFrame takes what currentFrame holds. *)
SwapBuffers(w) ==
    [w EXCEPT !.tft.lastFrame = w.tft.currentFrame, !.tft.currentFrame = w.tft.lastFrame]

(* CompareFrames pushing every frame, changed or not. *)
PushEveryFrame(w) ==
    ClearUnlessPopup(
        SwapBuffers(pushSprite(PopupOnTop([w EXCEPT !.tft.currentFrame = w.tft.canvas]))))

(* The frame comparison (the sprite's buffer is read in place): the canvas   *)
(* is copied to currentFrame only if it differs from lastFrame.              *)
CompareFrames(w) ==
    LET hasChanged == w.tft.canvas # w.tft.lastFrame
        w1 == IF hasChanged THEN [w EXCEPT !.tft.currentFrame = w.tft.canvas] ELSE w
    IN  ClearUnlessPopup(IF hasChanged \/ isActive(w1.pm)
                         THEN SwapBuffers(pushSprite(PopupOnTop(w1)))
                         ELSE w1)

(* OpenMenuOS::drawCanvasOnTFT(); when malloc fails the canvas is pushed and *)
(* cleared, and the allocation is tried again in the next call.              *)
drawCanvasOnTFT(w0) ==
    LET w == [w0 EXCEPT !.shot = [NoShot EXCEPT !.called = TRUE,
                                                !.composed = w0.tft.canvas,
                                                !.popup = isActive(w0.pm),
                                                !.before = w0.tft.panel]]
    IN  IF ~w.tft.optimizeDisplayUpdates THEN DirectDrawing(w)
        ELSE IF ~w.tft.buffersInitialized /\ w.tft.mallocFails THEN fillSprite(pushSprite(w))
        ELSE CompareFrames(BuffersReady(w))

loop(w) ==
    drawCanvasOnTFT(IF InputAllowed(w.currentScreen, w.pm)
                    THEN [handleInput(w, w.currentScreen) EXCEPT !.handled = TRUE]
                    ELSE w)

----------------------------------------------------------------------------
(* The board: time passes, the user works the buttons (one at a time) and *)
(* the knob                                                              *)

MaxTicks == 3

MaxInputs == 2

MaxCalls == 2

MaxDetents == 1

MaxDepth == 2

(* How far millis() moves between two calls: while a popup is watched, and *)
(* while the menu runs (200 ms steps meet every threshold of the handlers: *)
(* 200, 300 and 500 ms).                                                   *)
PopupTimeSteps == {100, 3000}

LoopTimeSteps == {200}

(* millis() when the model starts: just after reset, and 250 ms before the *)
(* counter wraps (the bit pattern of 2^32 - 250).                          *)
StartTimes == {0, -250}

NoLast == [op |-> "none"]

(* The board's steps forget the last call, but not that none was made yet. *)
Forget(l) == IF l.op = "init" THEN l ELSE NoLast

SettingsAtReset ==
    /\ settings = <<>>
    /\ totalSettings = 0
    /\ item_selected_settings = 0
    /\ item_selected_settings_previous = -1
    /\ item_selected_settings_next = 1
    /\ currentSettingIndex = 0
    /\ settingSelectLock = FALSE
    /\ preferencesInitialized = FALSE
    /\ call = NoCall
    /\ run = NoRun
    /\ boot = NoBoot
    /\ hold = NoHold
    /\ shown = NoShown
    /\ poll = NoPoll
    /\ tft = TftAtReset
    /\ second = NoSecond

BoardAtReset ==
    /\ ticks = 0
    /\ inputs = 0
    /\ calls = 0
    /\ selectPin = FALSE
    /\ upPin = FALSE
    /\ downPin = FALSE
    /\ encoderPosition = 0
    /\ encoderChanged = FALSE

(* int prevSelectState = !buttonVoltage is initialised while buttonVoltage is *)
(* still 0, so it holds 1: the pressed level when setButtonsMode("high")      *)
(* makes buttonVoltage HIGH.                                                  *)
ScreensAtReset ==
    /\ smCurrentScreen = NullScreen
    /\ screenHistory = <<>>
    /\ currentScreen = NullScreen
    /\ menus = [m \in MenuScreens |-> MenuAtReset]
    /\ prevSelectState = (buttonVoltage = 1)
    /\ mh = HandlerAtReset
    /\ sh = HandlerAtReset
    /\ ch = CustomAtReset

TickBy(steps) ==
    /\ ticks < MaxTicks
    /\ \E dt \in steps : now' = Add32(now, dt)
    /\ ticks' = ticks + 1
    /\ last' = Forget(last)
    /\ UNCHANGED <<inputs, calls, buttonVoltage, selectPin, upPin, downPin, useEncoder,
                   encoderPosition, encoderChanged, pm, quiet, settingsVars, call, run, boot, hold, shown, poll, tft,
                   screenVars>>

Tick == TickBy(PopupTimeSteps)

Wait == TickBy(LoopTimeSteps)

SelectButton ==
    /\ inputs < MaxInputs
    /\ inputs' = inputs + 1
    /\ selectPin \/ (~upPin /\ ~downPin)
    /\ selectPin' = ~selectPin
    /\ quiet' = FALSE
    /\ last' = Forget(last)
    /\ UNCHANGED <<now, ticks, calls, buttonVoltage, upPin, downPin, useEncoder, encoderPosition,
                   encoderChanged, pm, settingsVars, call, run, boot, hold, shown, poll, tft, screenVars>>

UpButton ==
    /\ ~useEncoder
    /\ inputs < MaxInputs
    /\ inputs' = inputs + 1
    /\ upPin \/ (~selectPin /\ ~downPin)
    /\ upPin' = ~upPin
    /\ quiet' = FALSE
    /\ last' = Forget(last)
    /\ UNCHANGED <<now, ticks, calls, buttonVoltage, selectPin, downPin, useEncoder,
                   encoderPosition, encoderChanged, pm, settingsVars, call, run, boot, hold, shown, poll, tft,
                   screenVars>>

DownButton ==
    /\ ~useEncoder
    /\ inputs < MaxInputs
    /\ inputs' = inputs + 1
    /\ downPin \/ (~selectPin /\ ~upPin)
    /\ downPin' = ~downPin
    /\ quiet' = FALSE
    /\ last' = Forget(last)
    /\ UNCHANGED <<now, ticks, calls, buttonVoltage, selectPin, upPin, useEncoder,
                   encoderPosition, encoderChanged, pm, settingsVars, call, run, boot, hold, shown, poll, tft,
                   screenVars>>

(* One detent of the knob: encoderISR has counted four steps. *)
EncoderTurn ==
    /\ useEncoder
    /\ inputs < MaxInputs
    /\ inputs' = inputs + 1
    /\ \E d \in {-4, 4} :
           /\ encoderPosition + d >= -4 * MaxDetents
           /\ encoderPosition + d <= 4 * MaxDetents
           /\ encoderPosition' = encoderPosition + d
    /\ encoderChanged' = TRUE
    /\ quiet' = FALSE
    /\ last' = Forget(last)
    /\ UNCHANGED <<now, ticks, calls, buttonVoltage, selectPin, upPin, downPin, useEncoder, pm,
                   settingsVars, call, run, boot, hold, shown, poll, tft, screenVars>>

----------------------------------------------------------------------------
(* Specification of the popup: the application shows and hides popups and *)
(* calls update().                                                        *)

PopupShow ==
    /\ \E c \in PopupConfigs : pm' = show(pm, c, now)
    /\ quiet' = (~selectPin /\ ~upPin)
    /\ last' = [op |-> "show"]
    /\ UNCHANGED <<boardVars, settingsVars, call, run, boot, hold, shown, poll, tft, screenVars>>

PopupHide ==
    /\ pm' = hide(pm)
    /\ last' = [op |-> "hide"]
    /\ UNCHANGED <<boardVars, quiet, settingsVars, call, run, boot, hold, shown, poll, tft, screenVars>>

PopupUpdate ==
    LET u == update(pm, now, selectPin, upPin, useEncoder, encoderPosition, encoderChanged)
    IN  /\ pm' = u.pm
        /\ encoderChanged' = u.encoderChanged
        /\ last' = [op |-> "update", visibleBefore |-> pm.isVisible, ret |-> u.ret,
                    confirm |-> u.confirm, focus |-> u.focus]
        /\ tft' = IF u.painted
                   THEN [tft EXCEPT !.canvas = Paint(@, PopupLayer(u.pm, useEncoder))]
                   ELSE tft
        /\ UNCHANGED <<now, ticks, inputs, calls, buttonVoltage, selectPin, upPin, downPin,
                       useEncoder, encoderPosition, quiet, settingsVars, call, run, boot, hold,
                       shown, poll, screenVars>>

InitPopup ==
    /\ SettingsAtReset
    /\ store = NoStore
    /\ BoardAtReset
    /\ now \in StartTimes
    /\ buttonVoltage = 0
    /\ useEncoder \in BOOLEAN
    /\ ScreensAtReset
    /\ pm = PopupAtReset
    /\ last = NoLast
    /\ quiet = FALSE

NextPopup ==
    \/ Tick
    \/ SelectButton
    \/ UpButton
    \/ EncoderTurn
    \/ PopupShow
    \/ PopupHide
    \/ PopupUpdate

SpecPopup == InitPopup /\ [][NextPopup]_vars

----------------------------------------------------------------------------
(* Specification of the menu system: the sketch has built its screens; it   *)
(* calls begin(), then loop() again and again, and navigates through        *)
(* redirectToScreen / navigateBack / screenManager as well.                 *)

(* What a ScreenManager call found. *)
Snapshot(w) ==
    [smCurrentScreen |-> w.smCurrentScreen, currentScreen |-> w.currentScreen,
     screenHistory |-> w.screenHistory,
     selection |-> SelectionIndex(w, w.smCurrentScreen)]

AppUnchanged ==
    UNCHANGED <<now, ticks, inputs, buttonVoltage, selectPin, upPin, downPin, useEncoder,
                encoderPosition, preferencesInitialized, call, run, boot, hold, shown, poll, quiet>>

Begin ==
    /\ UNCHANGED calls
    /\ smCurrentScreen = NullScreen
    /\ \E mainMenu \in {NullScreen, MainMenu} :
          LET w == begin(World, mainMenu)
          IN  /\ Commit(w)
              /\ last' = [op |-> "begin", arg |-> mainMenu, pre |-> Snapshot(World),
                          drawn |-> w.drawn, rendered |-> w.rendered]
              /\ boot' = [boot EXCEPT !.root = mainMenu]
    /\ UNCHANGED <<now, ticks, inputs, buttonVoltage, selectPin, upPin, downPin, useEncoder,
                   encoderPosition, preferencesInitialized, call, run, hold, shown, poll, quiet>>

(* screenManager.pushScreen(s), also as OpenMenuOS::redirectToScreen(s) *)
PushScreen ==
    /\ calls < MaxCalls
    /\ calls' = calls + 1
    /\ Len(screenHistory) < MaxDepth
    /\ \E s \in Screens \cup {NullScreen} :
          LET w == pushScreen(World, s)
          IN  /\ Commit(w)
              /\ last' = [op |-> "pushScreen", arg |-> s, pre |-> Snapshot(World),
                          drawn |-> w.drawn, rendered |-> w.rendered]
    /\ AppUnchanged

(* screenManager.popScreen(); afterPush tells that the call before it was a *)
(* pushScreen of a screen, pushed what that call found.                     *)
PopScreen ==
    /\ calls < MaxCalls
    /\ calls' = calls + 1
    /\ LET w == popScreen(World)
           afterPush == last.op = "pushScreen" /\ last.arg # NullScreen
       IN  /\ Commit(w)
           /\ last' = [op |-> "popScreen", ret |-> w.ret, pre |-> Snapshot(World),
                       drawn |-> w.drawn, rendered |-> w.rendered, afterPush |-> afterPush,
                       pushed |-> IF afterPush THEN last.pre ELSE Snapshot(World)]
    /\ AppUnchanged

NavigateBack ==
    /\ calls < MaxCalls
    /\ calls' = calls + 1
    /\ LET w == navigateBack(World)
       IN  /\ Commit(w)
           /\ last' = [op |-> "navigateBack", drawn |-> w.drawn, rendered |-> w.rendered]
    /\ AppUnchanged

(* The sketch asks a question: PopupManager::showQuestion(...) *)
AskQuestion ==
    /\ calls < MaxCalls
    /\ calls' = calls + 1
    /\ pm' = show(pm, QuestionConfig, now)
    /\ last' = [op |-> "show"]
    /\ UNCHANGED <<now, ticks, inputs, buttonVoltage, selectPin, upPin, downPin, useEncoder,
                   encoderPosition, encoderChanged, quiet, settingsVars, call, run, boot, hold, shown, poll, tft,
                   screenVars>>

(* The members loop() leaves, and what it did. *)
LoopReturned(w) ==
    /\ Len(w.screenHistory) <= MaxDepth
    /\ Commit(w)
    /\ last' = [op |-> "loop", popupBefore |-> isActive(pm),
                handled |-> w.handled, drawn |-> w.drawn, rendered |-> w.rendered,
                shot |-> w.shot, current |-> w.smCurrentScreen]

Loop ==
    /\ UNCHANGED calls
    /\ LoopReturned(loop(World))
    /\ AppUnchanged

Init ==
    /\ settings = SketchSettings
    /\ totalSettings = Len(SketchSettings)
    /\ store = SketchStore
    /\ item_selected_settings = 0
    /\ item_selected_settings_previous = -1
    /\ item_selected_settings_next = 1
    /\ currentSettingIndex = 0
    /\ settingSelectLock = FALSE
    /\ preferencesInitialized = TRUE
    /\ call = NoCall
    /\ run = NoRun
    /\ boot = [NoBoot EXCEPT !.defaults = <<0, 1, 0>>]
    /\ hold = NoHold
    /\ shown = NoShown
    /\ poll = NoPoll
    /\ tft = TftAtReset
    /\ second = NoSecond
    /\ BoardAtReset
    /\ now = 0
    /\ buttonVoltage \in {0, 1}
    /\ useEncoder \in BOOLEAN
    /\ ScreensAtReset
    /\ pm = PopupAtReset
    /\ last = [op |-> "init"]
    /\ quiet = FALSE

Next ==
    \/ Wait
    \/ SelectButton
    \/ UpButton
    \/ DownButton
    \/ EncoderTurn
    \/ Begin
    \/ PushScreen
    \/ PopScreen
    \/ NavigateBack
    \/ AskQuestion
    \/ Loop

Spec == Init /\ [][Next]_vars

----------------------------------------------------------------------------
(* Specification of the settings store: the application registers settings  *)
(* and modifies them through the public API.                                *)

InitSettings ==
    /\ SettingsAtReset
    /\ store \in InitialStores
    /\ BoardAtReset
    /\ now = 0
    /\ buttonVoltage = 0
    /\ useEncoder = FALSE
    /\ ScreensAtReset
    /\ pm = PopupAtReset
    /\ last = NoLast
    /\ quiet = FALSE

(* The arguments the getters and modify are given. *)
Indexes == (-(MaxSettings + 1))..(MaxSettings + 1) \cup {255, 256}

LookupNames == Names \cup {<<99>>, NullName}

AddBoolean == ~RestartDue /\ \E p \in BooleanParams : addBooleanSetting(p.name, p.def)

AddRange == ~RestartDue /\ \E p \in RangeParams : addRangeSetting(p.name, p.min, p.max, p.def)

AddOption == ~RestartDue /\ \E p \in OptionParams : addOptionSetting(p.name, p.count, p.def)

AddSubscreen == ~RestartDue /\ addSubscreenSetting(<<97>>, 3)

ModifyByIndex ==
    ~RestartDue /\ \E d \in Directions, i \in 0..(MaxSettings - 1) : modifyIndex(d, i)

ModifyByName == ~RestartDue /\ \E d \in Directions, n \in Names : modifyName(d, n)

(* modify by a name that may be unknown or null *)
ModifyByAnyName == \E d \in Directions, n \in LookupNames : modifyName(d, n)

(* A getter call: the state stays, the call record takes the answer. *)
Get(answer) ==
    /\ ~RestartDue
    /\ call' = answer
    /\ run' = NoRun
    /\ UNCHANGED <<settingsVars, boot, appVars>>

GetSettingName ==
    \E i \in Indexes : Get(Answer("getSettingName", i, getSettingName(settings, totalSettings, i)))

GetSettingValue ==
    \E i \in Indexes :
       Get(Answer("getSettingValue", i, getSettingValue(settings, totalSettings, i)))

GetSettingValueByName ==
    \E n \in LookupNames :
       Get(Answer("getSettingValueByName", n, getSettingValueByName(settings, totalSettings, n)))

(* The int the caller holds becomes the uint8_t parameter. *)
GetSettingType ==
    \E i \in Indexes :
       Get(Answer("getSettingType", i, getSettingType(settings, totalSettings, U8(i))))

ResetSettings == ~RestartDue /\ resetSettings

Restart == restart

NextSettings ==
    \/ AddBoolean
    \/ AddRange
    \/ AddOption
    \/ AddSubscreen
    \/ ModifyByIndex
    \/ ModifyByName
    \/ ResetSettings
    \/ Restart

SpecSettings == InitSettings /\ [][NextSettings]_vars

(* Specification of the lookups: the application registers settings, reads *)
(* them through the getters and modifies them by name.                     *)
NextLookup ==
    \/ AddBoolean
    \/ AddRange
    \/ AddOption
    \/ AddSubscreen
    \/ ModifyByAnyName
    \/ GetSettingName
    \/ GetSettingValue
    \/ GetSettingValueByName
    \/ GetSettingType

SpecLookup == InitSettings /\ [][NextLookup]_vars

(* Specification of the setting ids: settings are registered under every  *)
(* name of at most MaxNameLen characters over a small alphabet, the empty  *)
(* name included, and the device restarts.                                 *)
MaxNameLen == 2

Alphabet == {65, 66, 97}                        \* 'A', 'B', 'a'

IdNames == UNION {[1..n -> Alphabet] : n \in 0..MaxNameLen}

AddNamedBoolean == \E n \in IdNames : addBooleanSetting(n, 1)

AddNamedRange == \E n \in IdNames : addRangeSetting(n, 0, 3, 1)

AddNamedOption == \E n \in IdNames : addOptionSetting(n, 2, 1)

AddNamedSubscreen == \E n \in IdNames : addSubscreenSetting(n, 3)

NextId ==
    \/ AddNamedBoolean
    \/ AddNamedRange
    \/ AddNamedOption
    \/ AddNamedSubscreen
    \/ Restart

SpecId == InitSettings /\ [][NextId]_vars

----------------------------------------------------------------------------
(* Specification of a full settings screen: setup() has registered seven    *)
(* settings and goes on registering, each under a name not used before,     *)
(* through the four add*Setting helpers and addSetting(setting).            *)

MAX_ITEMS == 10

MaxRegistered == 11

(* The name of the k-th registration: "a", "b", "c", ... *)
NameOf(k) == <<96 + k>>

(* void SettingsScreen::addSetting(setting): NullSetting is nullptr. *)
NullSetting == [type |-> "none"]

SettingAdded(b, setting) ==
    IF setting # NullSetting
    THEN [b EXCEPT !.settings = Append(@, setting),
                   !.totalSettings = U8(Len(b.settings) + 1)]
    ELSE b

addSetting(setting) ==
    Register(SettingAdded(Bank, setting), IF setting = NullSetting THEN NullName ELSE setting.name,
             0, "addSetting", preferencesInitialized)

(* The seven settings setup() registers first, on an empty store. *)
SevenRegistered ==
    SubscreenRegistered(
      OptionRegistered(
        RangeRegistered(
          BooleanRegistered(
            SubscreenRegistered(
              RangeRegistered(
                BooleanRegistered([settings |-> <<>>, totalSettings |-> 0, store |-> NoStore,
                                   writes |-> 0],
                                  NameOf(1), 1),
                NameOf(2), 0, 3, 1),
              NameOf(3), CustomPage),
            NameOf(4), 0),
          NameOf(5), 0, 100, 50),
        NameOf(6), 3, 1),
      NameOf(7), CustomPage)

InitCap ==
    /\ settings = SevenRegistered.settings
    /\ totalSettings = SevenRegistered.totalSettings
    /\ store = SevenRegistered.store
    /\ item_selected_settings = 0
    /\ item_selected_settings_previous = -1
    /\ item_selected_settings_next = 1
    /\ currentSettingIndex = 0
    /\ settingSelectLock = FALSE
    /\ preferencesInitialized = TRUE
    /\ call = NoCall
    /\ run = NoRun
    /\ boot = [NoBoot EXCEPT !.defaults = <<1, 1, 0, 0, 50, 1, 0>>]
    /\ hold = NoHold
    /\ shown = NoShown
    /\ poll = NoPoll
    /\ tft = TftAtReset
    /\ second = NoSecond
    /\ BoardAtReset
    /\ now = 0
    /\ buttonVoltage = 0
    /\ useEncoder = FALSE
    /\ ScreensAtReset
    /\ pm = PopupAtReset
    /\ last = NoLast
    /\ quiet = FALSE

NextName == NameOf(Len(settings) + 1)

CapAddBoolean ==
    /\ Len(settings) < MaxRegistered
    /\ \E d \in {0, 1} :
          Register(BooleanRegistered(Bank, NextName, d), NextName, d, "addBoolean", TRUE)

CapAddRange ==
    /\ Len(settings) < MaxRegistered
    /\ Register(RangeRegistered(Bank, NextName, 0, 3, 1), NextName, 1, "addRange", TRUE)

CapAddOption ==
    /\ Len(settings) < MaxRegistered
    /\ Register(OptionRegistered(Bank, NextName, 2, 1), NextName, 1, "addOption", TRUE)

CapAddSubscreen ==
    /\ Len(settings) < MaxRegistered
    /\ Register(SubscreenRegistered(Bank, NextName, CustomPage), NextName, 0, "addSubscreen",
                preferencesInitialized)

CapAddSetting ==
    /\ Len(settings) < MaxRegistered
    /\ \E s \in {NullSetting, NewSetting(NextName, "BOOLEAN")} : addSetting(s)

NextCap ==
    \/ CapAddBoolean
    \/ CapAddRange
    \/ CapAddOption
    \/ CapAddSubscreen
    \/ CapAddSetting

SpecCap == InitCap /\ [][NextCap]_vars

----------------------------------------------------------------------------
(* Specification of the input handling: begin() has run and setup() may have *)
(* redirected to a second screen.  The user presses and releases one button  *)
(* at a time or turns the knob, time passes, the sketch may redirect or show *)
(* a popup, and loop() runs after every such event, so that it sees every    *)
(* level of every pin at the time the level is taken.                        *)

MaxPresses == 3

MaxWaits == 3

MaxSketchCalls == 1

InputTimeSteps == {200, 400}

(* The settings setup() registers on an empty store: a BOOLEAN, a RANGE 0..1, *)
(* a SUBSCREEN leading to the custom screen and an OPTION of two.             *)
InputRegistered ==
    OptionRegistered(
      SubscreenRegistered(
        RangeRegistered(
          BooleanRegistered([settings |-> <<>>, totalSettings |-> 0, store |-> NoStore,
                             writes |-> 0],
                            <<97>>, 0),
          <<98>>, 0, 1, 1),
        <<99>>, CustomPage),
      <<100>>, 2, 0)

(* The members and statics as constructed, before begin(). *)
WorldAtReset ==
    [smCurrentScreen |-> NullScreen, screenHistory |-> <<>>, currentScreen |-> NullScreen,
     menus |-> [m \in MenuScreens |-> MenuAtReset],
     settings |-> InputRegistered.settings, totalSettings |-> InputRegistered.totalSettings,
     store |-> InputRegistered.store,
     item_selected_settings |-> 0, item_selected_settings_previous |-> -1,
     item_selected_settings_next |-> 1,
     currentSettingIndex |-> 0, settingSelectLock |-> FALSE,
     prevSelectState |-> FALSE, mh |-> HandlerAtReset, sh |-> HandlerAtReset,
     ch |-> CustomAtReset, encoderChanged |-> FALSE, pm |-> PopupAtReset, tft |-> TftAtReset,
     drawn |-> <<>>, rendered |-> <<>>, steps |-> <<>>, ret |-> FALSE, handled |-> FALSE,
     shot |-> NoShot]

(* setup(): menu.begin(&mainMenu), then possibly menu.redirectToScreen(s). *)
AfterSetup(s) == pushScreen(begin(WorldAtReset, MainMenu), s)

SetupDone(w) ==
    /\ smCurrentScreen = w.smCurrentScreen
    /\ screenHistory = w.screenHistory
    /\ currentScreen = w.currentScreen
    /\ menus = w.menus
    /\ tft = w.tft
    /\ second = NoSecond

(* What setup() leaves of the settings, the statics and the board. *)
SetupRest ==
    /\ settings = InputRegistered.settings
    /\ totalSettings = InputRegistered.totalSettings
    /\ store = InputRegistered.store
    /\ item_selected_settings = 0
    /\ item_selected_settings_previous = -1
    /\ item_selected_settings_next = 1
    /\ currentSettingIndex = 0
    /\ settingSelectLock = FALSE
    /\ preferencesInitialized = TRUE
    /\ prevSelectState = FALSE
    /\ mh = HandlerAtReset
    /\ sh = HandlerAtReset
    /\ ch = CustomAtReset
    /\ call = NoCall
    /\ run = NoRun
    /\ boot = [NoBoot EXCEPT !.defaults = <<0, 1, 0, 0>>, !.root = MainMenu]
    /\ hold = NoHold
    /\ shown = NoShown
    /\ BoardAtReset
    /\ now = 0
    /\ buttonVoltage = 0
    /\ useEncoder \in BOOLEAN
    /\ pm = PopupAtReset
    /\ last = NoLast
    /\ quiet = FALSE

(* The members, the statics and the board when setup() returns. *)
SetupReturned ==
    /\ \E s \in {NullScreen, SettingsMenu, CustomPage} : SetupDone(AfterSetup(s))
    /\ SetupRest

InitInput == SetupReturned /\ poll = NoPoll

(* loop() has run since the last pin change or clock step. *)
Polled == last.op # "none"

(* digitalRead(pin) == buttonVoltage *)
Pin(b) == CASE b = "select" -> selectPin [] b = "up" -> upPin [] b = "down" -> downPin

(* The user puts a finger on button b. *)
Pressed(b) ==
    [button |-> b, since |-> now, screen |-> currentScreen, clean |-> ~isActive(pm),
     couldGoBack |-> canGoBack(screenHistory), down |-> TRUE, done |-> FALSE,
     length |-> 0, seen |-> 0, steps |-> 0, early |-> 0, first |-> 0, lastStep |-> 0,
     minGap |-> 0, pops |-> 0, at |-> currentScreen]

(* What the user sees of the screens: the selected item of each menu, the   *)
(* selected row and the values of the settings, the navigation stack.       *)
Frame(w) ==
    [index |-> [m \in MenuScreens |-> w.menus[m].currentItemIndex],
     row |-> w.item_selected_settings,
     values |-> [k \in 1..Len(w.settings) |-> w.settings[k].value],
     stack |-> Append(w.screenHistory, w.smCurrentScreen)]

(* A popup has appeared over the screens of w. *)
Appeared(w) == [state |-> "up", under |-> Frame(w), touched |-> FALSE]

(* A button or the knob has moved: under a popup that is input the screens  *)
(* must not see; after a popup was dismissed it is the next input event.    *)
Touched(s) ==
    IF s.state = "up" THEN [s EXCEPT !.touched = TRUE]
    ELSE IF s.state = "down" THEN NoShown
    ELSE s

(* How many steps of kind k a handleInput() call produced. *)
StepCount(steps, k) == Cardinality({i \in 1..Len(steps) : steps[i] = k})

(* What loop() made of the press h: steps are the steps it took, t the time, *)
(* depth and after the depth of the navigation stack before and after it,   *)
(* screen the screen it left current.                                        *)
HoldAfter(h, steps, t, depth, after, screen) ==
    IF h.button = "none" \/ h.done THEN h
    ELSE LET k == StepCount(steps, IF h.button = "select" THEN "short" ELSE h.button)
         IN  [h EXCEPT !.steps = @ + k,
                       !.early = IF h.down THEN @ + k ELSE @,
                       !.first = IF h.steps = 0 /\ k > 0 THEN Sub32(t, h.since) ELSE @,
                       !.minGap = IF k > 0 /\ h.steps > 0
                                     /\ (@ = 0 \/ Sub32(t, h.lastStep) < @)
                                  THEN Sub32(t, h.lastStep) ELSE @,
                       !.lastStep = IF k > 0 THEN t ELSE @,
                       !.pops = IF after < depth THEN @ + depth - after ELSE @,
                       !.seen = Sub32(t, h.since),
                       !.at = screen,
                       !.done = ~h.down]

(* The knob has been turned by d steps (one detent) and loop() has not run  *)
(* since.                                                                  *)
Turned(d) == [op |-> "none", turn |-> d \div 4]

(* The detent turned since the loop() call before this one: 1 clockwise,   *)
(* -1 counterclockwise, 0 if the event was not a turn of the knob.         *)
TurnSeen(l) == IF l.op = "none" /\ "turn" \in DOMAIN l THEN l.turn ELSE 0

ButtonWithin(presses) ==
    /\ Polled
    /\ (~selectPin /\ ~upPin /\ ~downPin) => inputs < presses
    /\ inputs' = IF ~selectPin /\ ~upPin /\ ~downPin THEN inputs + 1 ELSE inputs
    /\ \E b \in (IF useEncoder THEN {"select"} ELSE {"select", "up", "down"}) :
          /\ Pin(b) \/ (~selectPin /\ ~upPin /\ ~downPin)
          /\ selectPin' = IF b = "select" THEN ~selectPin ELSE selectPin
          /\ upPin' = IF b = "up" THEN ~upPin ELSE upPin
          /\ downPin' = IF b = "down" THEN ~downPin ELSE downPin
          /\ hold' = IF Pin(b)
                     THEN [hold EXCEPT !.down = FALSE, !.length = Sub32(now, hold.since)]
                     ELSE Pressed(b)
    /\ shown' = Touched(shown)
    /\ quiet' = FALSE
    /\ last' = NoLast
    /\ UNCHANGED <<now, ticks, calls, buttonVoltage, useEncoder, encoderPosition,
                   encoderChanged, pm, settingsVars, call, run, boot, poll, tft, screenVars>>

InputButton == ButtonWithin(MaxPresses)

(* One detent of the knob: encoderISR has counted four steps. *)
TurnWithin(presses) ==
    /\ Polled
    /\ useEncoder
    /\ inputs < presses
    /\ inputs' = inputs + 1
    /\ \E d \in {-4, 4} :
           /\ encoderPosition + d >= -4 * MaxDetents
           /\ encoderPosition + d <= 4 * MaxDetents
           /\ encoderPosition' = encoderPosition + d
           /\ last' = Turned(d)
    /\ encoderChanged' = TRUE
    /\ shown' = Touched(shown)
    /\ quiet' = FALSE
    /\ UNCHANGED <<now, ticks, calls, buttonVoltage, selectPin, upPin, downPin, useEncoder, pm,
                   settingsVars, call, run, boot, hold, poll, tft, screenVars>>

InputTurn == TurnWithin(MaxPresses)

WaitWithin(waits) ==
    /\ Polled
    /\ ticks < waits
    /\ ticks' = ticks + 1
    /\ \E dt \in InputTimeSteps : now' = Add32(now, dt)
    /\ last' = NoLast
    /\ UNCHANGED <<inputs, calls, buttonVoltage, selectPin, upPin, downPin, useEncoder,
                   encoderPosition, encoderChanged, pm, quiet, settingsVars, call, run, boot,
                   hold, shown, poll, tft, screenVars>>

InputWait == WaitWithin(MaxWaits)

(* The sketch calls redirectToScreen(s) or PopupManager::show(config). *)
InputSketchCall ==
    /\ last.op = "loop"
    /\ calls < MaxSketchCalls
    /\ calls' = calls + 1
    /\ \/ \E s \in {SettingsMenu} :
             LET w == pushScreen(World, s)
             IN  /\ Commit(w)
                 /\ last' = [op |-> "pushScreen", arg |-> s, pre |-> Snapshot(World),
                             drawn |-> w.drawn, rendered |-> w.rendered]
                 /\ shown' = NoShown
       \/ \E c \in {InfoConfig} :
             /\ pm' = show(pm, c, now)
             /\ last' = [op |-> "show"]
             /\ shown' = Appeared(World)
             /\ UNCHANGED <<settingsVars, screenVars, encoderChanged, tft>>
    /\ hold' = IF hold.button # "none" /\ ~hold.done THEN [hold EXCEPT !.clean = FALSE] ELSE hold
    /\ UNCHANGED <<now, ticks, inputs, buttonVoltage, selectPin, upPin, downPin, useEncoder,
                   encoderPosition, preferencesInitialized, call, run, boot, poll, quiet>>

(* The members loop() leaves, and what it did. *)
Looped(w) ==
    /\ Commit(w)
    /\ last' = [op |-> "loop", popupBefore |-> isActive(pm), handled |-> w.handled,
                drawn |-> w.drawn, rendered |-> w.rendered, steps |-> w.steps,
                shot |-> w.shot, current |-> w.smCurrentScreen, turned |-> TurnSeen(last)]
    /\ hold' = HoldAfter(hold, w.steps, now, Len(screenHistory), Len(w.screenHistory),
                         w.currentScreen)
    /\ shown' = IF ~isActive(pm) /\ isActive(w.pm) THEN Appeared(w)
                 ELSE IF shown.state = "up" /\ ~isActive(w.pm) THEN [shown EXCEPT !.state = "down"]
                 ELSE shown

InputLoop ==
    /\ last.op # "loop"
    /\ Looped(loop(World))
    /\ UNCHANGED <<now, ticks, inputs, calls, buttonVoltage, selectPin, upPin, downPin,
                   useEncoder, encoderPosition, preferencesInitialized, call, run, boot, poll, quiet>>

NextInput ==
    \/ InputButton
    \/ InputTurn
    \/ InputWait
    \/ InputSketchCall
    \/ InputLoop

SpecInput == InitInput /\ [][NextInput]_vars

----------------------------------------------------------------------------
(* Specification of the display: setup() has chosen whether display updates  *)
(* are optimised and has called begin(); the board has the memory for the    *)
(* two frame buffers or not.  The user works the buttons or the knob, time   *)
(* passes, the sketch may show a popup, and loop() runs after every event.   *)

MaxTouches == 4

MaxPauses == 2

(* OpenMenuOS::setOptimizeDisplayUpdates(enabled) *)
setOptimizeDisplayUpdates(w, enabled) == [w EXCEPT !.tft.optimizeDisplayUpdates = enabled]

InitDisplay ==
    /\ \E enabled \in BOOLEAN, fails \in BOOLEAN :
          /\ fails => enabled
          /\ SetupDone([setOptimizeDisplayUpdates(AfterSetup(NullScreen), enabled)
                           EXCEPT !.tft.mallocFails = fails])
    /\ SetupRest
    /\ poll = NoPoll

DisplayButton == ButtonWithin(MaxTouches)

DisplayTurn == TurnWithin(MaxTouches)

DisplayWait == WaitWithin(MaxPauses)

(* The sketch shows an information popup or a banner that closes by itself. *)
DisplayShow ==
    /\ last.op = "loop"
    /\ calls < MaxSketchCalls
    /\ calls' = calls + 1
    /\ \E c \in {InfoConfig, BannerConfig} : pm' = show(pm, c, now)
    /\ last' = [op |-> "show"]
    /\ shown' = Appeared(World)
    /\ hold' = IF hold.button # "none" /\ ~hold.done THEN [hold EXCEPT !.clean = FALSE] ELSE hold
    /\ UNCHANGED <<now, ticks, inputs, buttonVoltage, selectPin, upPin, downPin, useEncoder,
                   encoderPosition, encoderChanged, settingsVars, call, run, boot, poll, quiet,
                   tft, screenVars>>

NextDisplay ==
    \/ DisplayButton
    \/ DisplayTurn
    \/ DisplayWait
    \/ DisplayShow
    \/ InputLoop

SpecDisplay == InitDisplay /\ [][NextDisplay]_vars

----------------------------------------------------------------------------
(* Specification of the encoder: encoderISR runs on every edge of the two    *)
(* encoder pins and may run between any two statements of the block of       *)
(* MenuScreen::handleInput that reads the encoder (test encoderChanged, read *)
(* encoderPosition, compare with lastPosition, clear encoderChanged).        *)

MaxEdges == 6

(* The table with the entry for the transition 1 -> 3 inverted. *)
KNOBDIRInverted == <<0, -1, 1, 0, 1, 0, 0, 1, -1, 0, 0, 1, 0, 1, -1, 0>>

(* static const int8_t KNOBDIR[] *)
KNOBDIR == <<0, -1, 1, 0, 1, 0, 0, -1, -1, 0, 0, 1, 0, 1, -1, 0>>

(* The 2-bit state sig1 | (sig2 << 1) after the CLK or the DT pin changed. *)
PinFlipped(state, pin) ==
    IF pin = 1 THEN (IF state % 2 = 1 THEN state - 1 ELSE state + 1)
    ELSE (IF state >= 2 THEN state - 2 ELSE state + 2)

(* begin() read the pins into oldState and attached encoderISR to both. *)
InitEncoder ==
    /\ SetupReturned
    /\ useEncoder
    /\ currentScreen = MainMenu
    /\ \E p \in 0..3 : poll = [NoPoll EXCEPT !.pins = p, !.oldState = p]

encoderISR ==
    /\ poll.edges < MaxEdges
    /\ \E pin \in {1, 2} :
          LET thisState == PinFlipped(poll.pins, pin)
              direction == IF poll.oldState # thisState
                           THEN KNOBDIR[thisState + 4 * poll.oldState + 1] ELSE 0
          IN  /\ encoderPosition' = encoderPosition + direction
              /\ encoderChanged' = (encoderChanged \/ poll.oldState # thisState)
              /\ poll' = [poll EXCEPT !.pins = thisState, !.oldState = thisState,
                                      !.edges = @ + 1, !.fresh = FALSE, !.settled = FALSE]
    /\ UNCHANGED <<now, ticks, inputs, calls, buttonVoltage, selectPin, upPin, downPin,
                   useEncoder, pm, settingsVars, call, run, boot, hold, shown, tft, screenVars,
                   last, quiet>>

(* if (encoderChanged) *)
PollTest ==
    /\ poll.pc = "idle"
    /\ poll' = IF encoderChanged THEN [poll EXCEPT !.pc = "read", !.fresh = TRUE]
               ELSE [poll EXCEPT !.settled = TRUE]
    /\ UNCHANGED <<boardVars, pm, settingsVars, call, run, boot, hold, shown, tft, screenVars,
                   last, quiet>>

(* int newPosition = encoderPosition >> 2; *)
PollRead ==
    /\ poll.pc = "read"
    /\ poll' = [poll EXCEPT !.pc = "compare", !.newPosition = Detent(encoderPosition)]
    /\ UNCHANGED <<boardVars, pm, settingsVars, call, run, boot, hold, shown, tft, screenVars,
                   last, quiet>>

(* if (newPosition != lastPosition) { ...; lastPosition = newPosition; } *)
PollCompare ==
    /\ poll.pc = "compare"
    /\ poll' = [poll EXCEPT !.pc = "clear"]
    /\ IF poll.newPosition # mh.lastPosition
       THEN /\ menus' = (IF poll.newPosition > mh.lastPosition
                         THEN MenuDown(World, MainMenu) ELSE MenuUp(World, MainMenu)).menus
            /\ mh' = [mh EXCEPT !.lastPosition = poll.newPosition]
       ELSE UNCHANGED <<menus, mh>>
    /\ UNCHANGED <<boardVars, pm, settingsVars, call, run, boot, hold, shown, tft,
                   smCurrentScreen, screenHistory, currentScreen,
                   item_selected_settings_previous, item_selected_settings_next,
                   prevSelectState, sh, ch, last, quiet>>

(* encoderChanged = false; *)
PollClear ==
    /\ poll.pc = "clear"
    /\ encoderChanged' = FALSE
    /\ poll' = [poll EXCEPT !.pc = "idle", !.settled = poll.fresh]
    /\ UNCHANGED <<now, ticks, inputs, calls, buttonVoltage, selectPin, upPin, downPin,
                   useEncoder, encoderPosition, pm, settingsVars, call, run, boot, hold, shown,
                   tft, screenVars, last, quiet>>

NextEncoder ==
    \/ encoderISR
    \/ PollTest
    \/ PollRead
    \/ PollCompare
    \/ PollClear

SpecEncoder == InitEncoder /\ [][NextEncoder]_vars

----------------------------------------------------------------------------
(* Specification of the knob: the two encoder pins change level one at a     *)
(* time; encoderISR runs after an edge, but not always before the next one,  *)
(* and then reads the levels the pins have by then.                          *)

MaxPinEdges == 9

(* encoderISR, given the levels it reads: the new encoderPosition, oldState  *)
(* and encoderChanged.                                                       *)
EncoderStep(position, changed, oldState, thisState) ==
    IF oldState # thisState
    THEN [encoderPosition |-> position + KNOBDIR[thisState + 4 * oldState + 1],
          oldState |-> thisState, encoderChanged |-> TRUE]
    ELSE [encoderPosition |-> position, oldState |-> oldState, encoderChanged |-> changed]

(* The calls of encoderISR so far (the last eight): the state each found and *)
(* read, encoderPosition before and after it.                                *)
NoTrail == [op |-> "none", pending |-> FALSE, trail |-> <<>>]

LastEight(trail) == IF Len(trail) > 8 THEN SubSeq(trail, Len(trail) - 7, Len(trail)) ELSE trail

InitKnob ==
    /\ SetupReturned
    /\ useEncoder
    /\ currentScreen = MainMenu
    /\ \E p \in 0..3 : poll = [NoPoll EXCEPT !.pins = p, !.oldState = p]

(* The CLK or the DT pin changes level and raises the interrupt. *)
KnobEdge ==
    /\ poll.edges < MaxPinEdges
    /\ \E pin \in {1, 2} :
          poll' = [poll EXCEPT !.pins = PinFlipped(poll.pins, pin), !.edges = @ + 1]
    /\ last' = [(IF last.op = "none" THEN NoTrail ELSE last)
                    EXCEPT !.op = "edge", !.pending = TRUE]
    /\ UNCHANGED <<boardVars, pm, settingsVars, call, run, boot, hold, shown, tft, screenVars,
                   quiet>>

(* encoderISR runs. *)
KnobInterrupt ==
    /\ last.op = "edge"
    /\ last.pending
    /\ LET e == EncoderStep(encoderPosition, encoderChanged, poll.oldState, poll.pins)
       IN  /\ encoderPosition' = e.encoderPosition
           /\ encoderChanged' = e.encoderChanged
           /\ poll' = [poll EXCEPT !.oldState = e.oldState]
           /\ last' = [op |-> "isr", pending |-> FALSE,
                       trail |-> LastEight(Append(last.trail,
                                     [from |-> poll.oldState, to |-> poll.pins,
                                      before |-> encoderPosition,
                                      after |-> e.encoderPosition]))]
    /\ UNCHANGED <<now, ticks, inputs, calls, buttonVoltage, selectPin, upPin, downPin,
                   useEncoder, pm, settingsVars, call, run, boot, hold, shown, tft, screenVars,
                   quiet>>

NextKnob ==
    \/ KnobEdge
    \/ KnobInterrupt

SpecKnob == InitKnob /\ [][NextKnob]_vars

----------------------------------------------------------------------------
(* Specification of two SettingsScreen instances: setup() registers the     *)
(* settings of the first screen and then those of the second, the           *)
(* application modifies them by name, the device restarts.  Both instances  *)
(* use the one static Preferences namespace "Settings" (ensureInitialized), *)
(* and a setting's key is the id generateId makes of its name and type.     *)

(* How many settings setup() registers on each of the two screens. *)
MaxPerScreen == 1

SecondBank == [settings |-> second.settings, totalSettings |-> second.totalSettings,
               store |-> store, writes |-> 0]

(* A registration call on the second screen returns. *)
SecondRegister(b, name, default, op) ==
    /\ Len(second.settings) < MaxPerScreen
    /\ second' = [settings |-> b.settings, totalSettings |-> b.totalSettings,
                  defaults |-> IF Len(b.settings) > Len(second.settings)
                               THEN Append(second.defaults, default)
                               ELSE second.defaults]
    /\ store' = b.store
    /\ preferencesInitialized' = TRUE
    /\ call' = [NoCall EXCEPT !.op = op, !.arg = name, !.writes = b.writes]
    /\ run' = NoRun
    /\ UNCHANGED <<settings, totalSettings, item_selected_settings, currentSettingIndex,
                   settingSelectLock, boot>>
    /\ UNCHANGED appVars

(* second.modify(direction, name) *)
SecondModifyName(direction, name) ==
    LET t == FindByName(second.settings, second.totalSettings, name, 0)
    IN  /\ t >= 0
        /\ second.settings[t + 1].type # "SUBSCREEN"
        /\ second' = [second EXCEPT !.settings[t + 1] = ModifySetting(@, direction)]
        /\ store' = saveToEEPROM(second'.settings, second.totalSettings, store)
        /\ call' = [op |-> "second.modifyName", dir |-> direction, arg |-> name, target |-> t,
                    writes |-> PutCount(second.settings, second.totalSettings)]
        /\ run' = NoRun
        /\ UNCHANGED <<settings, totalSettings, item_selected_settings, currentSettingIndex,
                       settingSelectLock, preferencesInitialized, boot>>
        /\ UNCHANGED appVars

EmptyBank(st) == [settings |-> <<>>, totalSettings |-> 0, store |-> st, writes |-> 0]

(* What setup() makes of both screens over the store st: the first screen's *)
(* registrations, then the second's.                                        *)
SetupBoth(sts, defaults, sec, st) ==
    LET b1 == SetupAgain(sts, defaults, 1, EmptyBank(st))
        b2 == SetupAgain(sec.settings, sec.defaults, 1, EmptyBank(b1.store))
    IN  [first |-> b1.settings, second |-> b2.settings, store |-> b2.store]

(* The values a screen's settings hold. *)
Values(sts) == [i \in 1..Len(sts) |-> sts[i].value]

restartBoth ==
    LET b == SetupBoth(settings, boot.defaults, second, store)
    IN  /\ settings' = b.first
        /\ totalSettings' = U8(Len(b.first))
        /\ second' = [second EXCEPT !.settings = b.second,
                                    !.totalSettings = U8(Len(b.second))]
        /\ store' = b.store
        /\ item_selected_settings' = 0
        /\ currentSettingIndex' = 0
        /\ settingSelectLock' = FALSE
        /\ call' = [op |-> "restart", dir |-> 0, arg |-> -1, target |-> -1, writes |-> 0,
                    before |-> settings, modified |-> boot.modified, afterReset |-> FALSE]
        /\ run' = NoRun
        /\ boot' = [boot EXCEPT !.modified = {}]
        /\ UNCHANGED preferencesInitialized
        /\ UNCHANGED appVars

(* setup() registers on the first screen before it turns to the second. *)
FirstTurn == Len(settings) < MaxPerScreen /\ second.settings = <<>>

FirstAddBoolean == FirstTurn /\ AddBoolean

FirstAddRange == FirstTurn /\ AddRange

FirstAddOption == FirstTurn /\ AddOption

SecondAddBoolean ==
    \E p \in BooleanParams :
       SecondRegister(BooleanRegistered(SecondBank, p.name, p.def), p.name, p.def,
                      "second.addBoolean")

SecondAddRange ==
    \E p \in RangeParams :
       SecondRegister(RangeRegistered(SecondBank, p.name, p.min, p.max, p.def), p.name, p.def,
                      "second.addRange")

SecondAddOption ==
    \E p \in OptionParams :
       SecondRegister(OptionRegistered(SecondBank, p.name, p.count, p.def), p.name, p.def,
                      "second.addOption")

(* The directions the screens' own input handling passes to modify. *)
StepDirections == {-1, 1}

FirstModify == \E d \in StepDirections, n \in Names : modifyName(d, n)

SecondModify == \E d \in StepDirections, n \in Names : SecondModifyName(d, n)

RestartBoth == restartBoth

NextShared ==
    \/ FirstAddBoolean
    \/ FirstAddRange
    \/ FirstAddOption
    \/ SecondAddBoolean
    \/ SecondAddRange
    \/ SecondAddOption
    \/ FirstModify
    \/ SecondModify
    \/ RestartBoth

SpecShared == InitSettings /\ [][NextShared]_vars

----------------------------------------------------------------------------
(* Claims about modify, checked under SpecSettings *)

LastCallModified == call.op \in {"modifyIndex", "modifyName"} /\ call.target >= 0

(* C7: after a modify call, with any direction, has acted on a RANGE setting *)
(* with min <= max, the setting's value lies within [min, max]: it is never  *)
(* below min, above max, or wrapped around the 8-bit range.                  *)
C7_RangeStaysWithinBounds ==
    LastCallModified =>
        LET s == settings[call.target + 1]
        IN  (s.type = "RANGE" /\ s.min <= s.max) => (s.min <= s.value /\ s.value <= s.max)

(* A RANGE setting 0..3 standing at 0 was given direction -1 and stays at 0. *)
C7_Witness ==
    /\ LastCallModified
    /\ LET s == settings[call.target + 1]
       IN  /\ s.type = "RANGE" /\ s.min = 0 /\ s.max = 3
           /\ run.n >= 2 /\ call.dir = -1 /\ s.value = 0

(* C8: modify(direction, index) changes the setting at position index, whatever *)
(* row is selected, and leaves every other setting as it was.                   *)
C8_ModifyIndexActsOnIndex ==
    [][\A d \in Directions, i \in 0..(MaxSettings - 1) :
          (i < Len(settings) /\ modifyIndex(d, i)) =>
              settings' = [settings EXCEPT ![i + 1] = ModifySetting(@, d)]]_vars

(* C9: K consecutive modify(+1) calls acting on an OPTION setting with K >= 1 *)
(* options bring its option index back to the value it started from, and no   *)
(* smaller positive number of calls does.                                     *)
C9_OptionCyclesAfterK ==
    (run.t >= 0 /\ run.plus1 /\ settings[run.t + 1].type = "OPTION") =>
        LET s == settings[run.t + 1]
        IN  /\ run.n = s.optionCount => s.value = run.start
            /\ (run.n >= 1 /\ run.n < s.optionCount) => s.value # run.start

(* C10: modify flips a BOOLEAN setting for every direction, so that after an *)
(* odd number of consecutive calls it holds the opposite of the value it     *)
(* started from and after an even number that value again.                   *)
C10_BooleanFlips ==
    (run.t >= 0 /\ settings[run.t + 1].type = "BOOLEAN") =>
        LET s == settings[run.t + 1]
        IN  s.value = IF run.n % 2 = 1 THEN 1 - run.start ELSE run.start

(* Two consecutive calls on a BOOLEAN, the second with direction 0, restored it. *)
C10_Witness ==
    /\ run.t >= 0 /\ settings[run.t + 1].type = "BOOLEAN"
    /\ run.n = 2 /\ call.dir = 0 /\ settings[run.t + 1].value = run.start

----------------------------------------------------------------------------
(* Claims about the popup, checked under SpecPopup *)

(* C5: the update() call in which a SELECT press-then-release confirms a    *)
(* visible popup returns the terminal result (CANCEL for a popup with a     *)
(* cancel button whose focus is on it, OK otherwise), not NONE, and the     *)
(* popup is no longer active afterwards.                                    *)
C5_ConfirmReturnsResult ==
    (last.op = "update" /\ last.visibleBefore /\ last.confirm) =>
        /\ last.ret = (IF pm.config.showCancelButton /\ last.focus # 0 THEN "CANCEL" ELSE "OK")
        /\ ~isActive(pm)

(* C6: for a popup shown with autoClose that received no user input, an      *)
(* update() call made while now - showTime <= autoCloseDelay returns NONE    *)
(* and leaves the popup visible; the first one made when now - showTime >    *)
(* autoCloseDelay returns OK and leaves the popup inactive.                  *)
C6_AutoCloseTiming ==
    (last.op = "update" /\ last.visibleBefore /\ pm.config.autoClose /\ quiet) =>
        IF UGreater(Sub32(now, pm.showTime), pm.config.autoCloseDelay)
        THEN last.ret = "OK" /\ ~isActive(pm)
        ELSE last.ret = "NONE" /\ isActive(pm)

----------------------------------------------------------------------------
(* Claims about navigation and the loop, checked under Spec *)

(* C1: from a state with a current screen C and history H, pushScreen(S) of  *)
(* a screen S followed at once by popScreen() returns true and leaves        *)
(* currentScreen equal to C, the history equal to H and the selection index  *)
(* in C as it was.                                                           *)
C1_PushThenPopRestores ==
    (last.op = "popScreen" /\ last.afterPush /\ last.pushed.smCurrentScreen # NullScreen) =>
        /\ last.ret
        /\ smCurrentScreen = last.pushed.smCurrentScreen
        /\ currentScreen = last.pushed.smCurrentScreen
        /\ screenHistory = last.pushed.screenHistory
        /\ SelectionIndex(World, last.pushed.smCurrentScreen) = last.pushed.selection

(* A push and pop made on the settings screen, with the main menu in the *)
(* history and the second row selected.                                  *)
C1_Witness ==
    /\ last.op = "popScreen" /\ last.afterPush /\ last.ret
    /\ last.pushed.smCurrentScreen = SettingsMenu
    /\ last.pushed.screenHistory # <<>>
    /\ last.pushed.selection # 0

(* The call before was a pushScreen of a screen (begin makes one too). *)
PushedScreen == last.op \in {"pushScreen", "begin"} /\ last.arg # NullScreen

(* C2 as stated: canGoBack() is false on a fresh ScreenManager and true right *)
(* after every pushScreen(S) with S non-null, whatever the state before.      *)
C2_CanGoBackAfterEveryPush ==
    /\ last.op = "init" => ~canGoBack(screenHistory)
    /\ PushedScreen => canGoBack(screenHistory)

(* C2 amended: canGoBack() is false on a fresh ScreenManager; right after    *)
(* pushScreen(S) with S non-null it is true exactly when a screen was        *)
(* current before the call, so it is still false after the first push.       *)
C2_CanGoBackAfterPushOntoCurrent ==
    /\ last.op = "init" => ~canGoBack(screenHistory)
    /\ PushedScreen => (canGoBack(screenHistory) <=> last.pre.smCurrentScreen # NullScreen)

(* begin() has pushed the main menu onto the fresh manager: nothing to go back to. *)
C2_Witness ==
    /\ PushedScreen /\ last.op = "begin"
    /\ last.pre.smCurrentScreen = NullScreen
    /\ smCurrentScreen = MainMenu
    /\ ~canGoBack(screenHistory)

(* C3: popScreen() on an empty history returns false, and pushScreen(nullptr) *)
(* returns; either leaves ScreenManager's currentScreen, the global           *)
(* currentScreen and the history untouched and calls no draw().               *)
C3_RejectedCallsChangeNothing ==
    /\ (last.op = "popScreen" /\ last.pre.screenHistory = <<>>) =>
           (~last.ret /\ Snapshot(World) = last.pre /\ last.drawn = <<>>)
    /\ (last.op = "pushScreen" /\ last.arg = NullScreen) =>
           (Snapshot(World) = last.pre /\ last.drawn = <<>>)

(* popScreen() was called on the main menu, with nothing in the history. *)
C3_Witness ==
    /\ last.op = "popScreen" /\ last.pre.screenHistory = <<>>
    /\ last.pre.smCurrentScreen = MainMenu
    /\ ~last.ret

(* C4: a loop() tick that begins while a popup is active does not call the   *)
(* current screen's handleInput(): it changes no selection index, no setting *)
(* value and no entry of the navigation stack.                               *)
C4_PopupSuspendsInput ==
    [][(isActive(pm) /\ last'.op = "loop") =>
          /\ ~last'.handled
          /\ UNCHANGED <<menus, item_selected_settings, currentSettingIndex,
                         settingSelectLock, settings, store,
                         smCurrentScreen, currentScreen, screenHistory>>]_vars

(* A tick ran over a popup on the main menu while SELECT was held. *)
C4_Witness ==
    /\ last.op = "loop" /\ last.popupBefore /\ ~last.handled
    /\ currentScreen = MainMenu
    /\ selectPin

----------------------------------------------------------------------------
(* Claims about persistence, checked under SpecSettings *)

(* The settings that have a record in the store carry pairwise distinct ids. *)
DistinctIds(sts) ==
    \A i, j \in 1..Len(sts) :
        (i # j /\ sts[i].type # "SUBSCREEN" /\ sts[j].type # "SUBSCREEN") => sts[i].id # sts[j].id

(* C11: after any sequence of modify calls on BOOLEAN, RANGE and OPTION      *)
(* settings with pairwise distinct ids, a restart (memory lost, the same     *)
(* settings registered again against the same store) gives every setting    *)
(* modified at least once the value it had before the restart.               *)
C11_RestartKeepsModifiedValues ==
    (call.op = "restart" /\ ~call.afterReset /\ DistinctIds(call.before)) =>
        \A i \in call.modified : settings[i].value = call.before[i].value

(* The last call was addBooleanSetting, addRangeSetting or addOptionSetting. *)
RegistrationCall(c) == c.op \in {"addBoolean", "addRange", "addOption"}

(* C12: when addBooleanSetting, addRangeSetting or addOptionSetting registers *)
(* a setting for whose id the store holds no record, the setting's value is   *)
(* the default the caller gave and, when the call returns, the store holds a  *)
(* record under that id with that default.                                    *)
C12_NewSettingPersistsDefault ==
    [][(RegistrationCall(call') /\ Len(settings') = Len(settings) + 1
           /\ ~settingExists(store, settings'[Len(settings')].id)) =>
          LET s == settings'[Len(settings')]
              default == boot'.defaults[Len(settings')]
          IN  /\ s.value = default
              /\ settingExists(store', s.id)
              /\ store'[s.id].val = default]_vars

(* The position a modify call names: its index, or the first setting with *)
(* its name (-1 if none).                                                 *)
NamedTarget(c) ==
    IF c.op = "modifyIndex" THEN c.arg ELSE FindByName(settings, totalSettings, c.arg, 0)

(* The store holds the record saveToEEPROM writes for s as it is now. *)
RecordIsCurrent(s) ==
    /\ settingExists(store, s.id)
    /\ store[s.id] = [kind |-> IF s.type = "BOOLEAN" THEN "bool" ELSE "int", val |-> s.value]

(* C13: every modify call that targets an existing BOOLEAN, RANGE or OPTION *)
(* setting (ids pairwise distinct) has written to the store when it         *)
(* returns: the record under the setting's id equals the setting's value.   *)
C13_ModifyWritesAtOnce ==
    (call.op \in {"modifyIndex", "modifyName"} /\ DistinctIds(settings)) =>
        LET t == NamedTarget(call)
        IN  (t >= 0 /\ t < Len(settings) /\ settings[t + 1].type # "SUBSCREEN") =>
                (call.writes > 0 /\ RecordIsCurrent(settings[t + 1]))

(* The type each add*Setting call registers. *)
RegisteredType(op) ==
    CASE op = "addBoolean"   -> "BOOLEAN"
      [] op = "addRange"     -> "RANGE"
      [] op = "addOption"    -> "OPTION"
      [] op = "addSubscreen" -> "SUBSCREEN"

(* C14: an add*Setting call (addSubscreenSetting included) with a name that  *)
(* is already registered under the same type is a no-op: the settings, their *)
(* number, order, values and parameters stay as they were.                   *)
C14_DuplicateRegistrationIsNoOp ==
    [][((RegistrationCall(call') \/ call'.op = "addSubscreen")
           /\ HasSetting(settings, call'.arg, RegisteredType(call'.op))) =>
          (settings' = settings /\ totalSettings' = totalSettings)]_vars

----------------------------------------------------------------------------
(* Claims about the setting ids, checked under SpecId *)

(* C15: the id is a function of (name, type): settings with the same name   *)
(* and type have equal ids, before and after a restart; the id of a BOOLEAN, *)
(* RANGE or OPTION setting is a non-zero 16-bit number and the id of a       *)
(* SUBSCREEN setting is 0.                                                   *)
C15_IdIsFunctionOfNameAndType ==
    /\ \A i \in 1..Len(settings) :
          IF settings[i].type = "SUBSCREEN" THEN settings[i].id = 0
          ELSE settings[i].id \in 1..65535
    /\ \A i, j \in 1..Len(settings) :
          (settings[i].name = settings[j].name /\ settings[i].type = settings[j].type)
              => settings[i].id = settings[j].id
    /\ call.op = "restart" =>
          \A i \in 1..Len(call.before) :
              /\ settings[i].name = call.before[i].name
              /\ settings[i].type = call.before[i].type
              /\ settings[i].id = call.before[i].id

(* After a restart: a BOOLEAN with the empty name, whose hash is 0, has id 1, *)
(* and a SUBSCREEN has id 0.                                                  *)
C15_Witness ==
    /\ call.op = "restart" /\ Len(settings) = 2
    /\ settings[1].type = "BOOLEAN" /\ settings[1].name = <<>> /\ settings[1].id = 1
    /\ settings[2].type = "SUBSCREEN" /\ settings[2].id = 0

(* C17: two BOOLEAN, RANGE or OPTION settings registered on one screen with *)
(* different (name, type) pairs have different ids (16-bit wrapping hash).  *)
C17_IdsDoNotCollide ==
    \A i, j \in 1..Len(settings) :
        (/\ settings[i].type # "SUBSCREEN" /\ settings[j].type # "SUBSCREEN"
         /\ <<settings[i].name, settings[i].type>> # <<settings[j].name, settings[j].type>>)
            => settings[i].id # settings[j].id

----------------------------------------------------------------------------
(* Claims about SUBSCREEN settings and resetSettings, checked under SpecSettings *)

(* The call just made was a modify naming a SUBSCREEN setting. *)
ModifyNamesSubscreen ==
    /\ call'.op \in {"modifyIndex", "modifyName"}
    /\ LET t == NamedTarget(call')
       IN  t >= 0 /\ t < Len(settings) /\ settings[t + 1].type = "SUBSCREEN"

(* C16: no add*Setting, modify or resetSettings call creates, overwrites or  *)
(* removes a record on behalf of a SUBSCREEN setting (the store never holds  *)
(* a record under key 0), and a modify call on a SUBSCREEN setting changes   *)
(* no in-memory value and writes nothing to the store.                       *)
C16_SubscreenNeverPersisted ==
    [][/\ ~settingExists(store', 0)
       /\ ModifyNamesSubscreen =>
              (settings' = settings /\ store' = store /\ call'.writes = 0)]_vars

(* resetSettings() has run: no record under the id of any BOOLEAN, RANGE or *)
(* OPTION setting, and each holds false, its minimum or option index 0.     *)
SettingsCleared ==
    \A i \in 1..Len(settings) :
        settings[i].type # "SUBSCREEN" =>
            /\ ~settingExists(store, settings[i].id)
            /\ settings[i].value = (IF settings[i].type = "RANGE" THEN settings[i].min ELSE 0)

(* The default addOptionSetting registers: an index not below the option *)
(* count counts as 0.                                                    *)
DefaultTaken(s, default) ==
    IF s.type = "OPTION" /\ default >= s.optionCount THEN 0 ELSE default

----------------------------------------------------------------------------
(* Claims about the getters, checked under SpecLookup *)

(* C19: on a screen with N settings, getSettingValue, getSettingName and     *)
(* getSettingType called with a negative index i in [-N, -1] return the      *)
(* value, name and type of the setting at position N + i.                    *)
C19_NegativeIndexCountsFromEnd ==
    (call.op \in {"getSettingValue", "getSettingName", "getSettingType"}
        /\ call.arg < 0 /\ call.arg >= -totalSettings) =>
        LET s == settings[totalSettings + call.arg + 1]
        IN  call.ret = CASE call.op = "getSettingValue" -> RawValue(s)
                         [] call.op = "getSettingName"  -> s.name
                         [] call.op = "getSettingType"  -> s.type

----------------------------------------------------------------------------
(* Claims about the size of a settings screen, checked under SpecCap *)

(* C21: a SettingsScreen never holds more than MAX_ITEMS (10) settings: an  *)
(* add*Setting or addSetting call made when it holds MAX_ITEMS settings is  *)
(* dropped and leaves the settings list and totalSettings unchanged.        *)
C21_SettingsCappedAtMaxItems ==
    [][/\ Len(settings') <= MAX_ITEMS /\ totalSettings' <= MAX_ITEMS
       /\ Len(settings) >= MAX_ITEMS =>
              (settings' = settings /\ totalSettings' = totalSettings)]_vars

----------------------------------------------------------------------------
(* Claims about what the screens draw, checked under Spec *)

(* The last call was one that can draw. *)
LastCallDraws == last.op \in {"begin", "pushScreen", "popScreen", "navigateBack", "loop"}

(* C22: whenever a MenuScreen or SettingsScreen with N >= 1 entries is drawn, *)
(* the first draw made by pushScreen before any handleInput included, the     *)
(* rows it shows satisfy previous = (selected - 1 + N) mod N and              *)
(* next = (selected + 1) mod N.                                               *)
C22_DrawnNeighboursWrap ==
    LastCallDraws =>
        \A k \in 1..Len(last.rendered) :
            LET r == last.rendered[k]
            IN  r.size >= 1 =>
                    /\ r.previous = (r.selected - 1 + r.size) % r.size
                    /\ r.next = (r.selected + 1) % r.size

----------------------------------------------------------------------------
(* Claims about presses, checked under SpecInput *)

(* The press under way, or the last one, is of UP or DOWN, began on a menu *)
(* or the settings screen with no popup up, and no sketch call fell in it. *)
StepHold ==
    /\ hold.button \in {"up", "down"}
    /\ hold.clean
    /\ hold.screen \in MenuScreens \cup {SettingsMenu}

(* C23: an UP or DOWN press on a menu or the settings screen released less *)
(* than 300 ms after it began produces exactly one step in its direction,  *)
(* at the release, and none while the button is down.                      *)
C23_ShortPressStepsOnceAtRelease ==
    StepHold =>
        /\ (hold.down /\ hold.seen < SHORT_PRESS_TIME) => hold.steps = 0
        /\ (hold.done /\ hold.length < SHORT_PRESS_TIME) => (hold.steps = 1 /\ hold.early = 0)

(* C24: while UP or DOWN stays down no step is taken until the press has   *)
(* lasted more than 500 ms; the steps of one press are at least 200 ms     *)
(* apart; and a press that stepped while down takes no step at its release *)
(* that is not 200 ms after the step before it.                            *)
C24_LongPressRepeats ==
    StepHold =>
        /\ hold.early >= 1 => hold.first > LONG_PRESS_TIME_MENU
        /\ (hold.down /\ hold.seen <= LONG_PRESS_TIME_MENU) => hold.steps = 0
        /\ hold.steps >= 2 => hold.minGap >= 200

(* C28: an UP or DOWN press released before it has lasted more than 500 ms *)
(* produces exactly one step, whatever its duration.                       *)
C28_EveryShortPressSteps ==
    (StepHold /\ hold.done /\ hold.length <= LONG_PRESS_TIME_MENU) => hold.steps = 1

(* The press under way, or the last one, is of SELECT, began with no popup *)
(* up, and no sketch call fell in it.                                      *)
SelectHold ==
    /\ hold.button = "select"
    /\ hold.clean
    /\ hold.screen \in Screens

(* C25: once loop() has seen SELECT down for more than 300 ms, exactly one *)
(* screen has been popped if canGoBack() held and nothing has changed if   *)
(* it did not, however long the press lasts, and the release takes no      *)
(* short-press action.                                                     *)
C25_LongSelectPopsOnce ==
    (SelectHold /\ hold.seen > SELECT_BUTTON_LONG_PRESS_DURATION) =>
        /\ hold.pops = (IF hold.couldGoBack THEN 1 ELSE 0)
        /\ ~hold.couldGoBack => hold.at = hold.screen
        /\ hold.steps = 0

(* The steps of one handleInput() call, counted down the list. *)
StepDelta(steps) ==
    StepCount(steps, "down") + StepCount(steps, "cw")
        - StepCount(steps, "up") - StepCount(steps, "ccw")

SelectionsInRange ==
    /\ \A m \in MenuScreens :
          menus[m].currentItemIndex >= 0 /\ menus[m].currentItemIndex < Len(MenuItems(m))
    /\ item_selected_settings >= 0
    /\ item_selected_settings < totalSettings

SelectionStepsWrap ==
    last'.op = "loop" =>
        /\ \A m \in MenuScreens :
              currentScreen = m =>
                  menus'[m].currentItemIndex =
                      (menus[m].currentItemIndex + StepDelta(last'.steps)) % Len(MenuItems(m))
        /\ (currentScreen = SettingsMenu /\ ~settingSelectLock) =>
              item_selected_settings' =
                  (item_selected_settings + StepDelta(last'.steps)) % totalSettings

(* C27: the selection index of every menu and of the settings screen lies *)
(* in [0, N) in every reachable state, and a step moves it by one modulo  *)
(* N: DOWN or clockwise from N - 1 gives 0, UP or counter-clockwise from  *)
(* 0 gives N - 1.                                                         *)
C27_SelectionWraps == []SelectionsInRange /\ [][SelectionStepsWrap]_vars

(* UP on the first menu item and counter-clockwise on the first setting   *)
(* have led to the last one.                                              *)
C27_Witness ==
    /\ last.op = "loop"
    /\ \/ /\ last.steps = <<"up">>
          /\ currentScreen = MainMenu
          /\ menus[MainMenu].currentItemIndex = Len(MenuItems(MainMenu)) - 1
       \/ /\ last.steps = <<"ccw">>
          /\ currentScreen = SettingsMenu
          /\ ~settingSelectLock
          /\ item_selected_settings = totalSettings - 1


----------------------------------------------------------------------------
(* Claims about popups over the screens, checked under SpecInput *)

(* C30: input given while a popup is visible is never acted on by the screen *)
(* under it: from the moment the popup appears until the first input event   *)
(* after its dismissal the selection indices, the setting values and the     *)
(* navigation stack stay what they were when it appeared.                    *)
C30_PopupShieldsTheScreen ==
    (shown.state \in {"up", "down"} /\ shown.touched) => Frame(World) = shown.under

----------------------------------------------------------------------------
(* Claims about the selection lock, checked under SpecInput *)

(* The UP, DOWN and knob steps among the steps of one handleInput() call. *)
Moves(steps) ==
    StepCount(steps, "up") + StepCount(steps, "down")
        + StepCount(steps, "cw") + StepCount(steps, "ccw")

LockOnlyOnValueRows ==
    settingSelectLock => settings[item_selected_settings + 1].type \in {"RANGE", "OPTION"}

LockToggles ==
    (/\ last'.op = "loop"
     /\ currentScreen = SettingsMenu
     /\ last'.steps = <<"short">>
     /\ settings[item_selected_settings + 1].type \in {"RANGE", "OPTION"})
        => settingSelectLock' = ~settingSelectLock

LockedStepsChangeTheValue ==
    (/\ last'.op = "loop"
     /\ currentScreen = SettingsMenu
     /\ Moves(last'.steps) >= 1
     /\ settingSelectLock)
        => /\ item_selected_settings' = item_selected_settings
           /\ \A k \in 1..Len(settings) :
                 k # item_selected_settings + 1 => settings'[k] = settings[k]

UnlockedStepsChangeTheRow ==
    (/\ last'.op = "loop"
     /\ currentScreen = SettingsMenu
     /\ Moves(last'.steps) >= 1
     /\ StepCount(last'.steps, "short") = 0
     /\ ~settingSelectLock)
        => /\ \A k \in 1..Len(settings) : settings'[k].value = settings[k].value
           /\ item_selected_settings' # item_selected_settings

(* C29: on the settings screen a SELECT short press on a RANGE or OPTION  *)
(* row toggles the selection lock; with the lock on a step of UP, DOWN or *)
(* the knob changes at most the value of the selected setting and never   *)
(* the row; with the lock off it changes the row and no value; and the    *)
(* lock is never on while the selected row is a BOOLEAN or a SUBSCREEN.   *)
C29_SelectionLock ==
    /\ []LockOnlyOnValueRows
    /\ [][LockToggles /\ LockedStepsChangeTheValue /\ UnlockedStepsChangeTheRow]_vars

(* A locked step has just raised or lowered the value of the selected     *)
(* RANGE or OPTION row.                                                   *)
C29_Witness ==
    /\ last.op = "loop"
    /\ currentScreen = SettingsMenu
    /\ Moves(last.steps) = 1
    /\ settingSelectLock
    /\ settings[item_selected_settings + 1].value
          # InputRegistered.settings[item_selected_settings + 1].value

----------------------------------------------------------------------------
(* Claims about the encoder, checked under SpecEncoder *)

(* C26: however encoderISR interleaves with the statements that read the  *)
(* encoder, no change of detent is lost: once a poll has begun and ended  *)
(* with no edge since it began, lastPosition is encoderPosition >> 2.     *)
C26_NoDetentLost ==
    (poll.pc = "idle" /\ poll.settled) => mh.lastPosition = Detent(encoderPosition)

----------------------------------------------------------------------------
(* Claims about the display, checked under SpecDisplay *)

(* loop() has just returned from a drawCanvasOnTFT() call made with the    *)
(* optimisation on and no popup active, on a canvas identical to what the  *)
(* panel showed (the frame blitted last).                                  *)
IdenticalFrameDrawn ==
    /\ last.op = "loop"
    /\ tft.optimizeDisplayUpdates
    /\ ~last.shot.popup
    /\ last.shot.composed = last.shot.before

(* C31 as stated: with the optimisation on and no popup active, a          *)
(* drawCanvasOnTFT() call whose canvas is identical to the frame blitted   *)
(* last performs no blit and does not clear the canvas.                    *)
C31_Original ==
    IdenticalFrameDrawn => (last.shot.blits = 0 /\ ~last.shot.cleared)

(* C31: with the optimisation on, the frame buffers allocated and no popup *)
(* active, a drawCanvasOnTFT() call whose canvas is identical to the frame *)
(* blitted last performs no blit, leaves the panel as it was, and clears   *)
(* the canvas for the next frame.                                          *)
C31_UnchangedFrameNotBlitted ==
    (IdenticalFrameDrawn /\ tft.buffersInitialized)
        => (last.shot.blits = 0 /\ tft.panel = last.shot.before
              /\ last.shot.cleared /\ tft.canvas = <<>>)

(* An unchanged frame of the main menu was drawn and not blitted. *)
C31_Witness ==
    /\ IdenticalFrameDrawn
    /\ tft.buffersInitialized
    /\ last.shot.composed # <<>>
    /\ last.shot.blits = 0

(* C32: in every drawCanvasOnTFT() call made while a popup is active,      *)
(* optimisation on or off, PopupManager::update() runs and the canvas is   *)
(* blitted, and the canvas is not cleared if the popup is still active     *)
(* when the call ends.                                                     *)
C32_PopupAlwaysRedrawn ==
    (last.op = "loop" /\ last.shot.popup)
        => (last.shot.updated /\ last.shot.blits = 1
              /\ (isActive(pm) => ~last.shot.cleared))

(* C32 where the frame buffers could be allocated (or are not needed). *)
PopupRedrawnGivenMemory ==
    (last.op = "loop" /\ last.shot.popup /\ ~tft.mallocFails)
        => (last.shot.updated /\ last.shot.blits = 1
              /\ (isActive(pm) => ~last.shot.cleared))

(* The canvas as the call composed it: with the popup on top if update()   *)
(* ran.                                                                    *)
Composed(shot) == IF shot.updated THEN shot.pushed ELSE shot.composed

(* C35: with the optimisation on, after every drawCanvasOnTFT() call the   *)
(* panel shows the canvas composed in that tick, as it does with the       *)
(* optimisation off.                                                       *)
C35_PanelShowsTheCanvas ==
    (last.op = "loop" /\ last.shot.called) => tft.panel = Composed(last.shot)

(* C35 with the optimisation off. *)
PanelShowsTheCanvasUnoptimised ==
    (last.op = "loop" /\ ~tft.optimizeDisplayUpdates) => tft.panel = Composed(last.shot)

----------------------------------------------------------------------------
(* Claims about the navigation after begin(), checked under Spec *)

(* begin(root) has been called with a root. *)
Begun == boot.root # NullScreen

(* pushScreen(S) with S non-null has just returned. *)
PushedOne == last.op = "pushScreen" /\ last.arg # NullScreen

(* C33: once begin(root) has run with a root, whenever a pushScreen or     *)
(* popScreen call has returned (and at any other time) the ScreenManager's *)
(* currentScreen is non-null and is the global currentScreen loop()        *)
(* dispatches to; with an empty history it is the root; and pushScreen(S), *)
(* S non-null, makes S current and adds exactly one history entry: the     *)
(* screen that was current before.                                         *)
C33_CurrentScreenAfterBegin ==
    Begun =>
       /\ smCurrentScreen # NullScreen
       /\ currentScreen = smCurrentScreen
       /\ screenHistory = <<>> => smCurrentScreen = boot.root
       /\ PushedOne =>
             /\ smCurrentScreen = last.arg
             /\ screenHistory = Append(last.pre.screenHistory, last.pre.smCurrentScreen)

(* popScreen has returned to the root from a screen pushed on it. *)
C33_Witness ==
    /\ Begun
    /\ last.op = "popScreen"
    /\ last.ret
    /\ last.pre.smCurrentScreen # boot.root
    /\ screenHistory = <<>>
    /\ currentScreen = boot.root

----------------------------------------------------------------------------
(* Claims about encoderISR, checked under SpecKnob *)

(* The sense of a transition of the 2-bit pin state: +1 along the cycle    *)
(* 0, 2, 3, 1, 0 (one bit changes at a time), -1 against it, 0 when no bit *)
(* or both bits changed.                                                   *)
Sense(from, to) ==
    IF <<from, to>> \in {<<0, 2>>, <<2, 3>>, <<3, 1>>, <<1, 0>>} THEN 1
    ELSE IF <<to, from>> \in {<<0, 2>>, <<2, 3>>, <<3, 1>>, <<1, 0>>} THEN -1
    ELSE 0

(* Entries i .. i + 3 of the trail are four transitions of sense d, one    *)
(* after the other.                                                        *)
FourOfSense(trail, i, d) ==
    /\ \A k \in i..(i + 3) : Sense(trail[k].from, trail[k].to) = d
    /\ \A k \in i..(i + 2) : trail[k].to = trail[k + 1].from
                                /\ trail[k].after = trail[k + 1].before

(* Every call adds the sense of the transition it sees. *)
StepsFollowSense ==
    \A k \in 1..Len(last.trail) :
        last.trail[k].after - last.trail[k].before
            = Sense(last.trail[k].from, last.trail[k].to)

(* Four transitions in one direction from a multiple of 4 are one detent. *)
CycleIsOneDetent ==
    \A i \in 1..(Len(last.trail) - 3) : \A d \in {-1, 1} :
        (FourOfSense(last.trail, i, d) /\ last.trail[i].before % 4 = 0)
            => /\ last.trail[i + 3].after = last.trail[i].before + 4 * d
               /\ Detent(last.trail[i + 3].after) = Detent(last.trail[i].before) + d
               /\ last.trail[i + 3].to = last.trail[i].from

(* The reverse cycle restores the position. *)
ReverseCycleRestores ==
    \A d \in {-1, 1} :
        (/\ Len(last.trail) = 8
         /\ FourOfSense(last.trail, 1, d)
         /\ FourOfSense(last.trail, 5, -d)
         /\ last.trail[4].to = last.trail[5].from
         /\ last.trail[4].after = last.trail[5].before
         /\ last.trail[1].before % 4 = 0)
            => /\ last.trail[8].after = last.trail[1].before
               /\ Detent(last.trail[8].after) = Detent(last.trail[1].before)

(* C34: encoderISR adds +1 or -1 to encoderPosition for each single-bit    *)
(* transition of the pin state, according to its direction, and 0 when the *)
(* state is unchanged or both bits changed; four transitions in one        *)
(* direction from a position that is a multiple of 4 change encoderPosition *)
(* by 4 and encoderPosition >> 2 by one, and the reverse cycle restores    *)
(* the position.                                                           *)
C34_QuadratureSteps ==
    last.op = "isr" => (StepsFollowSense /\ CycleIsOneDetent /\ ReverseCycleRestores)

(* A full cycle against the sense from position 0 (to -4, detent -1) and   *)
(* the reverse cycle back to 0 have been counted.                          *)
C34_Witness ==
    /\ last.op = "isr"
    /\ Len(last.trail) = 8
    /\ FourOfSense(last.trail, 1, -1)
    /\ FourOfSense(last.trail, 5, 1)
    /\ last.trail[1].before = 0
    /\ last.trail[4].after = -4
    /\ encoderPosition = 0

(* encoderISR has found both bits changed, and has found no bit changed. *)
C34_WitnessMissedEdge ==
    /\ last.op = "isr"
    /\ \E k \in 1..Len(last.trail) :
          /\ last.trail[k].from + last.trail[k].to = 3
          /\ last.trail[k].after = last.trail[k].before
    /\ \E k \in 1..Len(last.trail) : last.trail[k].from = last.trail[k].to

----------------------------------------------------------------------------
(* Claims about SELECT and the knob across screens, checked under SpecInput *)

(* C36: a SELECT press on a menu or the settings screen that is released   *)
(* less than 300 ms after it began triggers the select action of that      *)
(* screen exactly once, also when it is the first press after a screen of  *)
(* that type was left by a long press and entered again.                   *)
C36_ShortSelectActsOnce ==
    (/\ SelectHold
     /\ hold.screen \in MenuScreens \cup {SettingsMenu}
     /\ hold.done
     /\ hold.length < SHORT_PRESS_TIME) => hold.steps = 1

(* C37: every step a screen takes for the knob has the direction of the    *)
(* rotation made since that screen last processed the encoder as the       *)
(* active handler: with loop() run after every event, a loop() call that   *)
(* steps clockwise (counterclockwise) follows a clockwise                  *)
(* (counterclockwise) turn of the knob; a turn made while another consumer *)
(* handled the input adds no step later and reverses none.                 *)
C37_KnobStepsFollowTheTurn ==
    last.op = "loop" =>
        /\ StepCount(last.steps, "cw") > 0 => last.turned = 1
        /\ StepCount(last.steps, "ccw") > 0 => last.turned = -1

(* C37 for the reversal alone: no step against the turn just made. *)
KnobStepsNeverAgainstTheTurn ==
    last.op = "loop" =>
        /\ StepCount(last.steps, "cw") > 0 => last.turned # -1
        /\ StepCount(last.steps, "ccw") > 0 => last.turned # 1

----------------------------------------------------------------------------
(* Claims about registered RANGE settings, checked under SpecSettings *)

(* C38: in every reachable state each RANGE setting has min <= max and a   *)
(* value within [min, max], also directly after addRangeSetting was given  *)
(* any default and after a record stored under the setting's id was loaded. *)
C38_RangeWithinBoundsAlways ==
    \A i \in 1..Len(settings) :
        settings[i].type = "RANGE" =>
            /\ settings[i].min <= settings[i].max
            /\ settings[i].min <= settings[i].value
            /\ settings[i].value <= settings[i].max

----------------------------------------------------------------------------
(* Claims about two SettingsScreen instances, checked under SpecShared *)

(* What the other screen's settings would hold after a restart from here. *)
SecondLoads(sts, sec, st) == Values(SetupBoth(sts, boot.defaults, sec, st).second)

FirstLoads(sts, sec, st) == Values(SetupBoth(sts, boot.defaults, sec, st).first)

(* C39: the screens persist their settings independently: a modify call on *)
(* one screen leaves the values the other screen's settings load at their  *)
(* registration after a restart as they were, also when both screens have  *)
(* registered a setting of the same name and type.                         *)
C39_ScreensPersistIndependently ==
    [][/\ FirstModify =>
             SecondLoads(settings', second', store') = SecondLoads(settings, second, store)
       /\ SecondModify =>
             FirstLoads(settings', second', store') = FirstLoads(settings, second, store)]_vars

(* The ids (the keys in the store) of a screen's settings. *)
IdsOf(sts) == {sts[i].id : i \in 1..Len(sts)} \ {0}

(* C39 for screens whose settings have no id in common. *)
ScreensWithDistinctIdsPersistIndependently ==
    [][IdsOf(settings) \cap IdsOf(second.settings) = {} =>
          /\ FirstModify =>
                SecondLoads(settings', second', store') = SecondLoads(settings, second, store)
          /\ SecondModify =>
                FirstLoads(settings', second', store') = FirstLoads(settings, second, store)]_vars

----------------------------------------------------------------------------
(* Claims about the screen drawn in a tick, checked under Spec *)

(* C40: in every loop() call in which a screen draws, the screen whose      *)
(* draw() wrote to the canvas last before the blit is the ScreenManager's   *)
(* current screen, also when handleInput() pushed a target screen or popped *)
(* back to the previous one in that call.                                   *)
C40_LastDrawnIsCurrent ==
    (last.op = "loop" /\ last.drawn # <<>>) =>
        last.drawn[Len(last.drawn)] = last.current

====
